---- MODULE Spec2Model ----
(***************************************************************************)
(* Model of the company categorizer: the candidate selector                *)
(* (src/src/company_matcher.py), the industry-code and keyword categorizers *)
(* and the orchestrator categorize_company (src/src/categorizer.py), over   *)
(* the taxonomy table of src/src/config.py.                                 *)
(*                                                                         *)
(* Representation.  A Python str is a sequence of one-character strings,   *)
(* so that lower(), startswith() and `in` are computed character by        *)
(* character.  The Norwegian letters of the taxonomy keywords are single    *)
(* elements written "ae", "oe", "aa" and "oh"; they count as one character, *)
(* as in Python.  A Python dict is a function whose DOMAIN is the set of    *)
(* keys present.  Category names, subsegment labels, methods and confidence *)
(* labels are only compared for equality and are TLA+ strings.              *)
(***************************************************************************)
EXTENDS Integers, Sequences, FiniteSets, TLC

VARIABLES pc, company_name, companies, company_data, result, exception,
          naringskoder, naringskode_result,
          responses, calls, batch, results, futures, category_arg

vars == <<pc, company_name, companies, company_data, result, exception,
          naringskoder, naringskode_result,
          responses, calls, batch, results, futures, category_arg>>

\* category_arg is the argument `category` of get_subsegment_suggestion
\* (the name category is that of the operators' parameters)

\* the state of the concurrent calls and of the batch processor
poolVars == <<calls, batch, results, futures>>

---------------------------------------------------------------------------
(* Python built-ins used by the source *)

UpperCase ==
    <<"A", "B", "C", "D", "E", "F", "G", "H", "I", "J", "K", "L", "M",
      "N", "O", "P", "Q", "R", "S", "T", "U", "V", "W", "X", "Y", "Z">>

LowerCase ==
    <<"a", "b", "c", "d", "e", "f", "g", "h", "i", "j", "k", "l", "m",
      "n", "o", "p", "q", "r", "s", "t", "u", "v", "w", "x", "y", "z">>

\* str.lower() on one character
LowerChar(c) ==
    IF \E i \in 1..Len(UpperCase) : UpperCase[i] = c
    THEN LowerCase[CHOOSE i \in 1..Len(UpperCase) : UpperCase[i] = c]
    ELSE c

\* str.lower()
lower(s) == [i \in 1..Len(s) |-> LowerChar(s[i])]

\* str.startswith(prefix)
startswith(s, prefix) ==
    /\ Len(prefix) <= Len(s)
    /\ SubSeq(s, 1, Len(prefix)) = prefix

\* `sub in text` for two strings
contains(text, sub) ==
    \E i \in 0..(Len(text) - Len(sub)) : SubSeq(text, i + 1, i + Len(sub)) = sub

\* dict.get(key, default)
Get(d, key, default) == IF key \in DOMAIN d THEN d[key] ELSE default

\* a for-loop over a list that threads one running value through its body;
\* the value is computed at every iteration, as the loop does
RECURSIVE ForEach(_, _, _, _)
ForEach(Body(_, _), acc, list, i) ==
    IF i > Len(list) THEN acc
    ELSE LET next == Body(acc, list[i])
         IN  IF next = acc
             THEN ForEach(Body, acc, list, i + 1)
             ELSE ForEach(Body, next, list, i + 1)

\* separator.join(list of strings)
RECURSIVE join(_, _)
join(sep, list) ==
    IF Len(list) = 0 THEN <<>>
    ELSE IF Len(list) = 1 THEN list[1]
    ELSE list[1] \o sep \o join(sep, Tail(list))

\* every list of at most n elements of S
RECURSIVE ListsUpTo(_, _)
ListsUpTo(S, n) ==
    IF n = 0 THEN {<<>>}
    ELSE LET shorter == ListsUpTo(S, n - 1)
         IN  shorter \cup {Append(l, x) : l \in {m \in shorter : Len(m) = n - 1}, x \in S}

---------------------------------------------------------------------------
(* The taxonomy table, src/src/config.py.  CATEGORY_ORDER is the iteration *)
(* order of the dict PRODUCT_CATEGORIES (insertion order).                  *)

CATEGORY_ORDER ==
    << "Fashion & Personal Accessories",
       "Beauty, Health & Well-Being",
       "Consumer Tech & Appliances",
       "Food, Grocery & Pet",
       "Home & Living",
       "Toys, Games & Leisure Goods",
       "Industrial & Manufacturing Supplies",
       "Energy, Utilities & Recycling",
       "Services, Trade & Institutions" >>

\* "Fashion & Personal Accessories"
Fashion ==
    [ codes |-> <<
          <<"1", "4">>,
          <<"1", "5", ".", "1">>,
          <<"3", "2", ".", "1">>,
          <<"4", "6", ".", "4", "1">>,
          <<"4", "6", ".", "4", "2">>,
          <<"4", "7", ".", "7", "1">>,
          <<"4", "7", ".", "7", "2">>,
          <<"4", "7", ".", "7", "7">>,
          <<"9", "5", ".", "2", "5">>
      >>,
      keywords |-> <<
          <<"k", "l", "ae", "r">>,  \* klaer
          <<"c", "l", "o", "t", "h", "i", "n", "g">>,  \* clothing
          <<"a", "p", "p", "a", "r", "e", "l">>,  \* apparel
          <<"f", "a", "s", "h", "i", "o", "n">>,  \* fashion
          <<"m", "o", "t", "e">>,  \* mote
          <<"s", "k", "o">>,  \* sko
          <<"s", "h", "o", "e", "s">>,  \* shoes
          <<"v", "e", "s", "k", "e", "r">>,  \* vesker
          <<"b", "a", "g", "s">>,  \* bags
          <<"s", "m", "y", "k", "k", "e", "r">>,  \* smykker
          <<"j", "e", "w", "e", "l", "r", "y">>,  \* jewelry
          <<"k", "l", "o", "k", "k", "e", "r">>,  \* klokker
          <<"w", "a", "t", "c", "h", "e", "s">>,  \* watches
          <<"b", "r", "i", "l", "l", "e", "r">>,  \* briller
          <<"e", "y", "e", "w", "e", "a", "r">>,  \* eyewear
          <<"a", "c", "c", "e", "s", "s", "o", "r", "i", "e", "s">>,  \* accessories
          <<"t", "i", "l", "b", "e", "h", "oe", "r">>  \* tilbehoer
      >>,
      subsegments |-> <<
          "Apparel and Footwear",
          "Apparel",
          "Childrenswear",
          "Footwear",
          "Sportswear",
          "Eyewear",
          "Bags and Luggage",
          "Jewellery",
          "Traditional and Connected Watches",
          "Personal Accessories"
      >> ]

\* "Beauty, Health & Well-Being"
Beauty ==
    [ codes |-> <<
          <<"2", "0", ".", "4">>,
          <<"2", "1">>,
          <<"2", "6", ".", "6">>,
          <<"3", "2", ".", "5">>,
          <<"4", "6", ".", "4", "5">>,
          <<"4", "6", ".", "4", "6">>,
          <<"4", "7", ".", "7", "5">>,
          <<"8", "6">>,
          <<"8", "7">>,
          <<"8", "8">>
      >>,
      keywords |-> <<
          <<"s", "k", "j", "oe", "n", "n", "h", "e", "t">>,  \* skjoennhet
          <<"b", "e", "a", "u", "t", "y">>,  \* beauty
          <<"k", "o", "s", "m", "e", "t", "i", "k", "k">>,  \* kosmetikk
          <<"c", "o", "s", "m", "e", "t", "i", "c", "s">>,  \* cosmetics
          <<"h", "e", "l", "s", "e">>,  \* helse
          <<"h", "e", "a", "l", "t", "h">>,  \* health
          <<"m", "e", "d", "i", "s", "i", "n">>,  \* medisin
          <<"m", "e", "d", "i", "c", "a", "l">>,  \* medical
          <<"p", "h", "a", "r", "m", "a", "c", "e", "u", "t", "i", "c", "a", "l">>,  \* pharmaceutical
          <<"f", "a", "r", "m", "a", "s", "oe", "y", "t", "i", "s", "k">>,  \* farmasoeytisk
          <<"h", "e", "l", "s", "e", "v", "e", "s", "e", "n">>,  \* helsevesen
          <<"h", "e", "a", "l", "t", "h", "c", "a", "r", "e">>,  \* healthcare
          <<"w", "e", "l", "l", "n", "e", "s", "s">>,  \* wellness
          <<"v", "e", "l", "v", "ae", "r", "e">>  \* velvaere
      >>,
      subsegments |-> <<
          "Beauty and Personal Care",
          "Consumer Health",
          "Pharmaceuticals and Medical Equipment"
      >> ]

\* "Consumer Tech & Appliances"
ConsumerTech ==
    [ codes |-> <<
          <<"2", "6", ".", "1">>,
          <<"2", "6", ".", "2">>,
          <<"2", "6", ".", "3">>,
          <<"2", "6", ".", "4">>,
          <<"2", "6", ".", "8">>,
          <<"2", "7">>,
          <<"2", "8", ".", "2">>,
          <<"4", "6", ".", "4", "3">>,
          <<"4", "6", ".", "5", "1">>,
          <<"4", "7", ".", "5">>,
          <<"9", "5", ".", "1">>,
          <<"9", "5", ".", "2">>
      >>,
      keywords |-> <<
          <<"e", "l", "e", "k", "t", "r", "o", "n", "i", "k", "k">>,  \* elektronikk
          <<"e", "l", "e", "c", "t", "r", "o", "n", "i", "c", "s">>,  \* electronics
          <<"t", "e", "k", "n", "o", "l", "o", "g", "i">>,  \* teknologi
          <<"t", "e", "c", "h", "n", "o", "l", "o", "g", "y">>,  \* technology
          <<"d", "a", "t", "a", "m", "a", "s", "k", "i", "n", "e", "r">>,  \* datamaskiner
          <<"c", "o", "m", "p", "u", "t", "e", "r", "s">>,  \* computers
          <<"t", "e", "l", "e", "f", "o", "n", "e", "r">>,  \* telefoner
          <<"p", "h", "o", "n", "e", "s">>,  \* phones
          <<"T", "V">>,  \* TV
          <<"r", "a", "d", "i", "o">>,  \* radio
          <<"a", "p", "p", "l", "i", "a", "n", "c", "e", "s">>,  \* appliances
          <<"h", "v", "i", "t", "e", "v", "a", "r", "e", "r">>,  \* hvitevarer
          <<"k", "j", "oe", "k", "k", "e", "n">>,  \* kjoekken
          <<"k", "i", "t", "c", "h", "e", "n">>  \* kitchen
      >>,
      subsegments |-> <<
          "Consumer Electronics",
          "Consumer Appliances"
      >> ]

\* "Food, Grocery & Pet"
Food ==
    [ codes |-> <<
          <<"0", "1">>,
          <<"0", "2">>,
          <<"0", "3">>,
          <<"1", "0">>,
          <<"1", "1">>,
          <<"1", "2">>,
          <<"4", "6", ".", "1">>,
          <<"4", "6", ".", "2">>,
          <<"4", "6", ".", "3">>,
          <<"4", "7", ".", "1">>,
          <<"4", "7", ".", "2">>,
          <<"4", "7", ".", "9">>
      >>,
      keywords |-> <<
          <<"m", "a", "t">>,  \* mat
          <<"f", "o", "o", "d">>,  \* food
          <<"m", "a", "t", "v", "a", "r", "e", "r">>,  \* matvarer
          <<"g", "r", "o", "c", "e", "r", "y">>,  \* grocery
          <<"l", "a", "n", "d", "b", "r", "u", "k">>,  \* landbruk
          <<"a", "g", "r", "i", "c", "u", "l", "t", "u", "r", "e">>,  \* agriculture
          <<"f", "i", "s", "k", "e">>,  \* fiske
          <<"f", "i", "s", "h", "i", "n", "g">>,  \* fishing
          <<"k", "j", "ae", "l", "e", "d", "y", "r">>,  \* kjaeledyr
          <<"p", "e", "t">>,  \* pet
          <<"d", "y", "r", "e", "f", "oh", "r">>,  \* dyrefohr
          <<"t", "o", "b", "a", "k", "k">>,  \* tobakk
          <<"t", "o", "b", "a", "c", "c", "o">>,  \* tobacco
          <<"d", "r", "i", "k", "k", "e">>,  \* drikke
          <<"b", "e", "v", "e", "r", "a", "g", "e">>  \* beverage
      >>,
      subsegments |-> <<
          "Staple Foods",
          "Pet Care",
          "Tobacco Products",
          "Agriculture"
      >> ]

\* "Home & Living"
Home ==
    [ codes |-> <<
          <<"1", "6">>,
          <<"3", "1">>,
          <<"3", "2", ".", "9">>,
          <<"4", "3", ".", "3">>,
          <<"4", "6", ".", "4", "7">>,
          <<"4", "6", ".", "4", "9">>,
          <<"4", "7", ".", "5", "2">>,
          <<"4", "7", ".", "5", "3">>,
          <<"4", "7", ".", "5", "4">>,
          <<"4", "7", ".", "5", "9">>
      >>,
      keywords |-> <<
          <<"m", "oe", "b", "l", "e", "r">>,  \* moebler
          <<"f", "u", "r", "n", "i", "t", "u", "r", "e">>,  \* furniture
          <<"h", "j", "e", "m">>,  \* hjem
          <<"h", "o", "m", "e">>,  \* home
          <<"b", "o", "l", "i", "g">>,  \* bolig
          <<"l", "i", "v", "i", "n", "g">>,  \* living
          <<"i", "n", "t", "e", "r", "i", "oe", "r">>,  \* interioer
          <<"i", "n", "t", "e", "r", "i", "o", "r">>,  \* interior
          <<"h", "a", "g", "e">>,  \* hage
          <<"g", "a", "r", "d", "e", "n">>,  \* garden
          <<"r", "e", "n", "o", "v", "e", "r", "i", "n", "g">>,  \* renovering
          <<"r", "e", "n", "o", "v", "a", "t", "i", "o", "n">>,  \* renovation
          <<"l", "u", "k", "s", "u", "s">>,  \* luksus
          <<"l", "u", "x", "u", "r", "y">>,  \* luxury
          <<"i", "n", "n", "r", "e", "d", "n", "i", "n", "g">>,  \* innredning
          <<"f", "u", "r", "n", "i", "s", "h", "i", "n", "g">>  \* furnishing
      >>,
      subsegments |-> <<
          "Home Improvement",
          "Gardening",
          "Homewares & Home Furnishings",
          "Household Goods",
          "Luxury Goods"
      >> ]

\* "Toys, Games & Leisure Goods"
Toys ==
    [ codes |-> <<
          <<"3", "2", ".", "4">>,
          <<"3", "2", ".", "3">>,
          <<"4", "6", ".", "4", "9">>,
          <<"4", "7", ".", "6", "5">>,
          <<"9", "3", ".", "1">>
      >>,
      keywords |-> <<
          <<"l", "e", "k", "e", "r">>,  \* leker
          <<"t", "o", "y", "s">>,  \* toys
          <<"s", "p", "i", "l", "l">>,  \* spill
          <<"g", "a", "m", "e", "s">>,  \* games
          <<"g", "a", "m", "i", "n", "g">>,  \* gaming
          <<"s", "p", "o", "r", "t">>,  \* sport
          <<"s", "p", "o", "r", "t", "s">>,  \* sports
          <<"f", "r", "i", "t", "i", "d">>,  \* fritid
          <<"l", "e", "i", "s", "u", "r", "e">>,  \* leisure
          <<"h", "o", "b", "b", "y">>  \* hobby
      >>,
      subsegments |-> <<
          "Toys and Games",
          "Sports Goods"
      >> ]

\* "Industrial & Manufacturing Supplies"
Industrial ==
    [ codes |-> <<
          <<"1", "9">>,
          <<"2", "0">>,
          <<"2", "2">>,
          <<"2", "3">>,
          <<"2", "4">>,
          <<"2", "5">>,
          <<"2", "8">>,
          <<"2", "9">>,
          <<"3", "0">>,
          <<"3", "3">>,
          <<"4", "6", ".", "6">>,
          <<"4", "6", ".", "7">>
      >>,
      keywords |-> <<
          <<"i", "n", "d", "u", "s", "t", "r", "i">>,  \* industri
          <<"i", "n", "d", "u", "s", "t", "r", "i", "a", "l">>,  \* industrial
          <<"p", "r", "o", "d", "u", "k", "s", "j", "o", "n">>,  \* produksjon
          <<"m", "a", "n", "u", "f", "a", "c", "t", "u", "r", "i", "n", "g">>,  \* manufacturing
          <<"k", "j", "e", "m", "i", "s", "k">>,  \* kjemisk
          <<"c", "h", "e", "m", "i", "c", "a", "l">>,  \* chemical
          <<"m", "e", "t", "a", "l", "l">>,  \* metall
          <<"m", "e", "t", "a", "l">>,  \* metal
          <<"m", "a", "s", "k", "i", "n">>,  \* maskin
          <<"m", "a", "c", "h", "i", "n", "e", "r", "y">>,  \* machinery
          <<"u", "t", "s", "t", "y", "r">>,  \* utstyr
          <<"e", "q", "u", "i", "p", "m", "e", "n", "t">>,  \* equipment
          <<"r", "aa", "v", "a", "r", "e", "r">>,  \* raavarer
          <<"m", "a", "t", "e", "r", "i", "a", "l", "s">>  \* materials
      >>,
      subsegments |-> <<
          "Chemical Products",
          "Metal Products",
          "Non-metallic Mineral Products",
          "Machinery and Equipment",
          "Transport Equipment",
          "Paper and Printing",
          "Building and Construction Materials",
          "Professional Equipment"
      >> ]

\* "Energy, Utilities & Recycling"
Energy ==
    [ codes |-> <<
          <<"3", "5">>,
          <<"3", "6">>,
          <<"3", "7">>,
          <<"3", "8">>,
          <<"3", "9">>,
          <<"0", "5">>,
          <<"0", "6">>,
          <<"0", "7">>,
          <<"0", "8">>,
          <<"0", "9">>
      >>,
      keywords |-> <<
          <<"e", "n", "e", "r", "g", "i">>,  \* energi
          <<"e", "n", "e", "r", "g", "y">>,  \* energy
          <<"e", "l", "e", "k", "t", "r", "i", "s", "i", "t", "e", "t">>,  \* elektrisitet
          <<"e", "l", "e", "c", "t", "r", "i", "c", "i", "t", "y">>,  \* electricity
          <<"o", "l", "j", "e">>,  \* olje
          <<"o", "i", "l">>,  \* oil
          <<"g", "a", "s", "s">>,  \* gass
          <<"g", "a", "s">>,  \* gas
          <<"v", "a", "n", "n">>,  \* vann
          <<"w", "a", "t", "e", "r">>,  \* water
          <<"a", "v", "f", "a", "l", "l">>,  \* avfall
          <<"w", "a", "s", "t", "e">>,  \* waste
          <<"r", "e", "s", "i", "r", "k", "u", "l", "e", "r", "i", "n", "g">>,  \* resirkulering
          <<"r", "e", "c", "y", "c", "l", "i", "n", "g">>,  \* recycling
          <<"m", "i", "l", "j", "oe">>,  \* miljoe
          <<"e", "n", "v", "i", "r", "o", "n", "m", "e", "n", "t", "a", "l">>  \* environmental
      >>,
      subsegments |-> <<
          "Energy",
          "Utilities and Recycling"
      >> ]

\* "Services, Trade & Institutions"
Services ==
    [ codes |-> <<
          <<"4", "5">>,
          <<"4", "6">>,
          <<"4", "7">>,
          <<"4", "9">>,
          <<"5", "0">>,
          <<"5", "1">>,
          <<"5", "2">>,
          <<"5", "3">>,
          <<"5", "8">>,
          <<"5", "9">>,
          <<"6", "0">>,
          <<"6", "1">>,
          <<"6", "2">>,
          <<"6", "3">>,
          <<"6", "4">>,
          <<"6", "5">>,
          <<"6", "6">>,
          <<"6", "8">>,
          <<"6", "9">>,
          <<"7", "0">>,
          <<"7", "1">>,
          <<"7", "2">>,
          <<"7", "3">>,
          <<"7", "4">>,
          <<"7", "5">>,
          <<"7", "7">>,
          <<"7", "8">>,
          <<"7", "9">>,
          <<"8", "0">>,
          <<"8", "1">>,
          <<"8", "2">>,
          <<"8", "4">>,
          <<"8", "5">>,
          <<"9", "0">>,
          <<"9", "1">>,
          <<"9", "2">>,
          <<"9", "3">>,
          <<"9", "4">>,
          <<"9", "5">>,
          <<"9", "6">>,
          <<"9", "7">>,
          <<"9", "8">>,
          <<"9", "9">>
      >>,
      keywords |-> <<
          <<"h", "a", "n", "d", "e", "l">>,  \* handel
          <<"t", "r", "a", "d", "e">>,  \* trade
          <<"s", "e", "r", "v", "i", "c", "e">>,  \* service
          <<"t", "j", "e", "n", "e", "s", "t", "e">>,  \* tjeneste
          <<"b", "a", "n", "k">>,  \* bank
          <<"f", "i", "n", "a", "n", "s">>,  \* finans
          <<"f", "i", "n", "a", "n", "c", "e">>,  \* finance
          <<"f", "o", "r", "s", "i", "k", "r", "i", "n", "g">>,  \* forsikring
          <<"i", "n", "s", "u", "r", "a", "n", "c", "e">>,  \* insurance
          <<"e", "i", "e", "n", "d", "o", "m">>,  \* eiendom
          <<"r", "e", "a", "l", " ", "e", "s", "t", "a", "t", "e">>,  \* real estate
          <<"r", "aa", "d", "g", "i", "v", "n", "i", "n", "g">>,  \* raadgivning
          <<"c", "o", "n", "s", "u", "l", "t", "i", "n", "g">>,  \* consulting
          <<"I", "T">>,  \* IT
          <<"s", "o", "f", "t", "w", "a", "r", "e">>,  \* software
          <<"u", "t", "d", "a", "n", "n", "i", "n", "g">>,  \* utdanning
          <<"e", "d", "u", "c", "a", "t", "i", "o", "n">>,  \* education
          <<"h", "e", "l", "s", "e">>,  \* helse
          <<"h", "e", "a", "l", "t", "h">>,  \* health
          <<"k", "u", "l", "t", "u", "r">>,  \* kultur
          <<"c", "u", "l", "t", "u", "r", "e">>,  \* culture
          <<"t", "r", "a", "n", "s", "p", "o", "r", "t">>,  \* transport
          <<"l", "o", "g", "i", "s", "t", "i", "c", "s">>,  \* logistics
          <<"h", "o", "t", "e", "l", "l">>,  \* hotell
          <<"r", "e", "s", "t", "a", "u", "r", "a", "n", "t">>  \* restaurant
      >>,
      subsegments |-> <<
          "Retail & Wholesale",
          "Information & Communications",
          "Publishing & Printing",
          "Finance & Insurance",
          "Real Estate",
          "Consulting & Business Services",
          "Education",
          "Health & Social Services",
          "Arts & Culture",
          "Transportation & Storage",
          "Hotels & Restaurants",
          "Business Services",
          "Construction & Real Estate"
      >> ]

PRODUCT_CATEGORIES ==
    ("Fashion & Personal Accessories" :> Fashion)
    @@ ("Beauty, Health & Well-Being" :> Beauty)
    @@ ("Consumer Tech & Appliances" :> ConsumerTech)
    @@ ("Food, Grocery & Pet" :> Food)
    @@ ("Home & Living" :> Home)
    @@ ("Toys, Games & Leisure Goods" :> Toys)
    @@ ("Industrial & Manufacturing Supplies" :> Industrial)
    @@ ("Energy, Utilities & Recycling" :> Energy)
    @@ ("Services, Trade & Institutions" :> Services)

\* config.py lines 54-67: the id of every category name
CATEGORY_IDS ==
    ("Fashion & Personal Accessories" :> 1)
    @@ ("Beauty, Health & Well-Being" :> 2)
    @@ ("Consumer Tech & Appliances" :> 3)
    @@ ("Food, Grocery & Pet" :> 4)
    @@ ("Home & Living" :> 5)
    @@ ("Toys, Games & Leisure Goods" :> 6)
    @@ ("Industrial & Manufacturing Supplies" :> 7)
    @@ ("Energy, Utilities & Recycling" :> 8)
    @@ ("Services, Trade & Institutions" :> 9)
    @@ ("Uncategorized" :> 0)
    @@ ("Not Found" :> 0)

---------------------------------------------------------------------------
(* src/src/utils.py *)

\* f"naeringskode{i}" for i in range(1, 4)
NK_SLOTS == <<"naeringskode1", "naeringskode2", "naeringskode3">>

\* `if nk:` for company_data.get(slot): the key is present and its dict is
\* not empty
SlotFilled(data, slot) ==
    /\ slot \in DOMAIN data
    /\ DOMAIN data[slot] # {}

has_naringskoder(data) ==
    \E i \in 1..Len(NK_SLOTS) :
        /\ SlotFilled(data, NK_SLOTS[i])
        /\ Len(Get(data[NK_SLOTS[i]], "kode", <<>>)) > 0

is_company_active(data) ==
    /\ ~Get(data, "konkurs", FALSE)
    /\ ~Get(data, "underAvvikling", FALSE)
    /\ ~Get(data, "underTvangsavviklingEllerTvangsopplosning", FALSE)
    /\ Len(Get(data, "nedleggelsesdato", <<>>)) = 0

extract_naringskoder(data) ==
    ForEach(LAMBDA acc, slot :
                IF SlotFilled(data, slot)
                THEN Append(acc, data[slot])
                ELSE acc,
            <<>>, NK_SLOTS, 1)

---------------------------------------------------------------------------
(* src/src/utils.py: similarity_score, that is                             *)
(* difflib.SequenceMatcher(None, a, b).ratio() without junk: the longest    *)
(* common block (the earliest in a, then the earliest in b, among the       *)
(* longest), then the same to its left and to its right.  Positions are     *)
(* 0-based and ranges half-open, as in difflib.                             *)

\* length of the common run of a[i:ahi] and b[j:bhi]
RECURSIVE RunLength(_, _, _, _, _, _)
RunLength(a, b, i, j, ahi, bhi) ==
    IF i < ahi /\ j < bhi /\ a[i + 1] = b[j + 1]
    THEN 1 + RunLength(a, b, i + 1, j + 1, ahi, bhi)
    ELSE 0

SetMax(S) == CHOOSE x \in S : \A y \in S : y <= x

SetMin(S) == CHOOSE x \in S : \A y \in S : x <= y

\* the length of the common run at every pair of positions of a[alo:ahi] and
\* b[blo:bhi]
RunLengths(a, b, alo, ahi, blo, bhi) ==
    [i \in alo..(ahi - 1), j \in blo..(bhi - 1) |-> RunLength(a, b, i, j, ahi, bhi)]

\* the longest run, the earliest in a and then in b among the longest
LongestRun(size, alo, blo) ==
    LET bestsize == SetMax({0} \cup {size[p] : p \in DOMAIN size})
        longest == {p \in DOMAIN size : size[p] = bestsize}
        besti == SetMin({p[1] : p \in longest})
        bestj == SetMin({p[2] : p \in {q \in longest : q[1] = besti}})
    IN  IF bestsize = 0 THEN <<alo, blo, 0>> ELSE <<besti, bestj, bestsize>>

\* SequenceMatcher.find_longest_match: <<i, j, size>>
find_longest_match(a, b, alo, ahi, blo, bhi) ==
    LongestRun(RunLengths(a, b, alo, ahi, blo, bhi), alo, blo)

\* SequenceMatcher.get_matching_blocks, summed: the block m and the blocks
\* found to its left and to its right
RECURSIVE MatchedChars(_, _, _, _, _, _)
RECURSIVE BlockAndSides(_, _, _, _, _, _, _)
BlockAndSides(a, b, alo, ahi, blo, bhi, m) ==
    IF m[3] = 0 THEN 0
    ELSE m[3]
         + (IF alo < m[1] /\ blo < m[2]
            THEN MatchedChars(a, b, alo, m[1], blo, m[2]) ELSE 0)
         + (IF m[1] + m[3] < ahi /\ m[2] + m[3] < bhi
            THEN MatchedChars(a, b, m[1] + m[3], ahi, m[2] + m[3], bhi) ELSE 0)

MatchedChars(a, b, alo, ahi, blo, bhi) ==
    BlockAndSides(a, b, alo, ahi, blo, bhi, find_longest_match(a, b, alo, ahi, blo, bhi))

\* The ratio 2.0 * matches / (len(a) + len(b)), 1.0 for two empty strings,
\* as the exact fraction [num, den].
similarity_score(str1, str2) ==
    LET a == lower(str1)
        b == lower(str2)
    IN  IF Len(a) + Len(b) = 0 THEN [num |-> 1, den |-> 1]
        ELSE [num |-> 2 * MatchedChars(a, b, 0, Len(a), 0, Len(b)),
              den |-> Len(a) + Len(b)]

---------------------------------------------------------------------------
(* src/src/company_matcher.py.  A relevance score is an exact fraction      *)
(* [num, den] with den > 0; the weights are counted in hundredths.          *)

FracGT(x, y) == x.num * y.den > y.num * x.den

\* abs(x - y) <= 0.1
FracClose(x, y) ==
    LET d == x.num * y.den - y.num * x.den
    IN  10 * (IF d < 0 THEN -d ELSE d) <= x.den * y.den

PrimaryForms == {"AS", "ASA", "ENK", "DA", "BA", "SA"}

BranchForms == {"NUF", "FIL"}

\* the additions to the score with the penalty of line 38 turned into the
\* bonus of line 36
BonusForEveryForm(data) ==
    LET org_form == Get(data, "organisasjonsform", <<>>)
        org_code == IF DOMAIN org_form # {} THEN Get(org_form, "kode", "") ELSE ""
    IN  (IF is_company_active(data) THEN 25 ELSE 0)
        + (IF \/ Len(Get(data, "aktivitet", <<>>)) > 0
              \/ Len(Get(data, "vedtektsfestetFormaal", <<>>)) > 0
           THEN 10 ELSE 0)
        + (IF org_code \in PrimaryForms \cup BranchForms THEN 5 ELSE 0)

\* lines 22-38: the additions to the score, in hundredths
Bonus(data) ==
    LET org_form == Get(data, "organisasjonsform", <<>>)
        org_code == IF DOMAIN org_form # {} THEN Get(org_form, "kode", "") ELSE ""
    IN  (IF is_company_active(data) THEN 25 ELSE 0)
        + (IF \/ Len(Get(data, "aktivitet", <<>>)) > 0
              \/ Len(Get(data, "vedtektsfestetFormaal", <<>>)) > 0
           THEN 10 ELSE 0)
        + (IF org_code \in PrimaryForms THEN 5
           ELSE IF org_code \in BranchForms THEN -2
           ELSE 0)

\* name_similarity * 0.6 + bonus
Weighted(name_similarity, bonus) ==
    [num |-> 60 * name_similarity.num + bonus * name_similarity.den,
     den |-> 100 * name_similarity.den]

get_company_relevance_score(data, search_name) ==
    Weighted(similarity_score(search_name, Get(data, "navn", <<>>)), Bonus(data))

\* Python's None
None == [type |-> "NoneType"]

\* a Python tuple, which has no method get
PyTuple(items) == [type |-> "tuple", items |-> items]

\* [c for c in companies if has_naringskoder(c)]
WithNK(cands) == SelectSeq(cands, has_naringskoder)

\* scored_companies.sort(key=lambda x: x[0], reverse=True): the sort is
\* stable, so an entry goes behind every entry whose score is not smaller
SortInsert(sorted, entry) ==
    LET k == Cardinality({i \in 1..Len(sorted) : ~FracGT(entry[1], sorted[i][1])})
    IN  SubSeq(sorted, 1, k) \o <<entry>> \o SubSeq(sorted, k + 1, Len(sorted))

SortByScore(scored) == ForEach(SortInsert, <<>>, scored, 1)

\* lines 82-85
Scored(companies_to_score, search_name) ==
    [i \in 1..Len(companies_to_score) |->
        <<get_company_relevance_score(companies_to_score[i], search_name),
          companies_to_score[i]>>]

\* no tie-break: the top of the sorted list, whoever is active
TieBreakTopOnly(scored_companies, companies_with_nk) ==
    scored_companies[1][2]

\* the tie-break with the active matches taken from the whole sorted list
\* and not from the close matches
TieBreakAnyActive(scored_companies, companies_with_nk) ==
    LET close_matches ==
            SelectSeq(scored_companies,
                      LAMBDA sc : FracClose(sc[1], scored_companies[1][1]))
        active_matches ==
            SelectSeq(scored_companies, LAMBDA sc : is_company_active(sc[2]))
    IN  IF Len(close_matches) > 1 /\ Len(companies_with_nk) > 1 /\ Len(active_matches) > 0
        THEN active_matches[1][2]
        ELSE scored_companies[1][2]

\* lines 98-130: the tie-break among the close matches of the sorted list
TieBreak(scored_companies, companies_with_nk) ==
    LET close_matches ==
            SelectSeq(scored_companies,
                      LAMBDA sc : FracClose(sc[1], scored_companies[1][1]))
        active_matches ==
            SelectSeq(close_matches, LAMBDA sc : is_company_active(sc[2]))
    IN  IF Len(close_matches) > 1 /\ Len(companies_with_nk) > 1 /\ Len(active_matches) > 0
        THEN active_matches[1][2]
        ELSE scored_companies[1][2]

\* lines 81-130 over the whole candidate list, whoever has codes
SelectByScoreAll(cands, companies_with_nk, search_name) ==
    TieBreak(SortByScore(Scored(cands, search_name)), companies_with_nk)

\* lines 68-130, with companies_to_score chosen as on lines 69-79
SelectByScore(cands, companies_with_nk, search_name) ==
    TieBreak(SortByScore(Scored(IF Len(companies_with_nk) > 1
                                THEN companies_with_nk
                                ELSE cands,
                                search_name)),
             companies_with_nk)

\* the selection without the priority rule of lines 60-66
SelectAmongNoPriority(cands, companies_with_nk, search_name) ==
    SelectByScore(cands, companies_with_nk, search_name)

\* lines 53-130
SelectAmong(cands, companies_with_nk, search_name) ==
    IF Len(companies_with_nk) = 1
    THEN companies_with_nk[1]
    ELSE SelectByScore(cands, companies_with_nk, search_name)

\* a selection that gives up when no candidate has an industry code
select_best_company_matchCodedOnly(cands, search_name) ==
    IF Len(WithNK(cands)) = 0 THEN None
    ELSE IF Len(cands) = 1 THEN cands[1]
    ELSE SelectAmong(cands, WithNK(cands), search_name)

\* lines 43-130
select_best_company_match(cands, search_name) ==
    IF Len(cands) = 0 THEN None
    ELSE IF Len(cands) = 1 THEN cands[1]
    ELSE SelectAmong(cands, WithNK(cands), search_name)

\* company_matcher.py lines 144-157
WithMetadata(selected_company, cands, search_name) ==
    IF selected_company # None /\ DOMAIN selected_company # {}
    THEN PyTuple(<<selected_company,
                   [total_matches |-> Len(cands),
                    companies_with_naringskoder |-> Len(WithNK(cands)),
                    exact_name_match |->
                        \E i \in 1..Len(cands) :
                            lower(Get(cands[i], "navn", <<>>)) = lower(search_name),
                    selected_company_has_naringskoder |->
                        has_naringskoder(selected_company)]>>)
    ELSE None

\* fetch_company_by_name without its two checks (lines 137 and 144): the
\* tuple is returned whatever was selected
fetch_company_by_nameUnchecked(cands, search_name) ==
    PyTuple(<<select_best_company_match(cands, search_name),
              [total_matches |-> Len(cands)]>>)

\* fetch_company_by_name, given the list fetch_companies_by_name returned
fetch_company_by_name(cands, search_name) ==
    IF Len(cands) = 0 THEN None
    ELSE WithMetadata(select_best_company_match(cands, search_name), cands, search_name)

---------------------------------------------------------------------------
(* src/src/categorizer.py: categorize_by_naringskode.  The running best is *)
(* [match, score]; match = <<>> is best_match = None.  Scores are counted   *)
(* in half points, so that len(keyword) * 0.5 stays an integer: a prefix    *)
(* scores 2 * len(prefix) and a keyword len(keyword).                       *)

KeywordTagOpen == <<" ", "(", "k", "e", "y", "w", "o", "r", "d", ":", " ">>

KeywordTagClose == <<")">>

\* f"{code} (keyword: {keyword})"
KeywordTag(code, keyword) == code \o KeywordTagOpen \o keyword \o KeywordTagClose

\* a prefix match scored without regard to the length of the prefix
PrefixScoreFlat(prefix) == 2

\* score = len(prefix)
PrefixScore(prefix) == 2 * Len(prefix)

\* score = len(keyword) * 0.5
KeywordScore(keyword) == Len(keyword)

\* the prefix loop body with `>=` in place of `>` on line 28: among equal
\* scores the match met last wins
PrefixStepLastWins(best, category, naringskode, prefix) ==
    LET code == Get(naringskode, "kode", <<>>)
        score == PrefixScore(prefix)
    IN  IF startswith(code, prefix) /\ score >= best.score
        THEN [match |-> <<category, code, Get(naringskode, "beskrivelse", <<>>)>>,
              score |-> score]
        ELSE best

\* body of `for prefix in info["codes"]`
PrefixStep(best, category, naringskode, prefix) ==
    LET code == Get(naringskode, "kode", <<>>)
        score == PrefixScore(prefix)
    IN  IF startswith(code, prefix) /\ score > best.score
        THEN [match |-> <<category, code, Get(naringskode, "beskrivelse", <<>>)>>,
              score |-> score]
        ELSE best

\* body of `for keyword in info["keywords"]`
KeywordStep(best, category, naringskode, keyword) ==
    LET code == Get(naringskode, "kode", <<>>)
        description == lower(Get(naringskode, "beskrivelse", <<>>))
        score == KeywordScore(keyword)
    IN  IF contains(description, lower(keyword)) /\ score > best.score
        THEN [match |-> <<category, KeywordTag(code, keyword),
                          Get(naringskode, "beskrivelse", <<>>)>>,
              score |-> score]
        ELSE best

\* body of `for naringskode in naringskoder`
NaringskodeStep(best, category, naringskode) ==
    LET info == PRODUCT_CATEGORIES[category]
        afterCodes ==
            ForEach(LAMBDA b, prefix : PrefixStep(b, category, naringskode, prefix),
                    best, info.codes, 1)
    IN  ForEach(LAMBDA b, keyword : KeywordStep(b, category, naringskode, keyword),
                afterCodes, info.keywords, 1)

\* body of `for category, info in PRODUCT_CATEGORIES.items()`
CategoryStep(best, category, nks) ==
    ForEach(LAMBDA b, naringskode : NaringskodeStep(b, category, naringskode),
            best, nks, 1)

categorize_by_naringskode(nks) ==
    LET final ==
            ForEach(LAMBDA b, category : CategoryStep(b, category, nks),
                    [match |-> <<>>, score |-> 0], CATEGORY_ORDER, 1)
    IN  IF final.match # <<>>
        THEN final.match
        ELSE <<"Uncategorized", <<>>, <<>>>>

---------------------------------------------------------------------------
(* src/src/categorizer.py: categorize_by_keywords *)

KeywordMatchCode == <<"k", "e", "y", "w", "o", "r", "d", "_", "m", "a", "t", "c", "h">>

NoMatchCode == <<"n", "o", "_", "m", "a", "t", "c", "h">>

KeywordsLabel == <<"K", "e", "y", "w", "o", "r", "d", "s", ":", " ">>

\* lines 53-71: the name and every activity, statutory purpose and VAT
\* description, lower-cased and joined by single spaces
CombinedText(data) ==
    LET lowered(list) == [i \in 1..Len(list) |-> lower(list[i])]
        text_fields ==
            <<lower(Get(data, "navn", <<>>))>>
            \o lowered(Get(data, "aktivitet", <<>>))
            \o lowered(Get(data, "vedtektsfestetFormaal", <<>>))
            \o lowered(Get(data, "frivilligMvaRegistrertBeskrivelser", <<>>))
    IN  join(<<" ">>, text_fields)

\* lines 81-84: the keywords of a category found in the text, in table order
MatchedKeywords(category, combined_text) ==
    SelectSeq(PRODUCT_CATEGORIES[category].keywords,
              LAMBDA keyword : contains(combined_text, lower(keyword)))

\* sum of len(keyword) over a list of keywords
SumOfLengths(keywords) == ForEach(LAMBDA total, keyword : total + Len(keyword), 0, keywords, 1)

\* the loop body with `>=` in place of `>` on line 86: on equal sums the
\* category met last wins
KeywordCategoryStepLastWins(best, category, combined_text) ==
    LET matched_keywords == MatchedKeywords(category, combined_text)
        category_score == SumOfLengths(matched_keywords)
    IN  IF category_score >= best.score /\ category_score > 0
        THEN [match |-> <<category, KeywordMatchCode,
                          KeywordsLabel \o join(<<",", " ">>, matched_keywords)>>,
              score |-> category_score]
        ELSE best

\* body of `for category, info in PRODUCT_CATEGORIES.items()`, lines 78-92
KeywordCategoryStep(best, category, combined_text) ==
    LET matched_keywords == MatchedKeywords(category, combined_text)
        category_score == SumOfLengths(matched_keywords)
    IN  IF category_score > best.score
        THEN [match |-> <<category, KeywordMatchCode,
                          KeywordsLabel \o join(<<",", " ">>, matched_keywords)>>,
              score |-> category_score]
        ELSE best

categorize_by_keywords(data) ==
    LET combined_text == CombinedText(data)
        final ==
            ForEach(LAMBDA b, category : KeywordCategoryStep(b, category, combined_text),
                    [match |-> <<>>, score |-> 0], CATEGORY_ORDER, 1)
    IN  IF final.match # <<>>
        THEN final.match
        ELSE <<"Uncategorized", NoMatchCode, <<>>>>

---------------------------------------------------------------------------
(* src/src/categorizer.py: get_subsegment_suggestion *)

\* any(word in text for word in words)
AnyWordIn(words, text) == \E i \in DOMAIN words : contains(text, words[i])

\* line 107: f"{navn} {' '.join(aktivitet)}".lower()
SubsegmentText(data) ==
    lower(Get(data, "navn", <<>>) \o <<" ">> \o join(<<" ">>, Get(data, "aktivitet", <<>>)))

\* the chain of lines 111-126 with its first two branches exchanged
FashionSubsegmentFootwearFirst(text) ==
    IF AnyWordIn(<<<<"s", "k", "o">>, <<"s", "h", "o", "e">>, <<"f", "o", "o", "t", "w", "e", "a", "r">>>>, text)
        THEN "Footwear"
    ELSE IF AnyWordIn(<<<<"b", "a", "r", "n">>, <<"c", "h", "i", "l", "d">>, <<"k", "i", "d">>>>, text)
        THEN "Childrenswear"
    ELSE IF AnyWordIn(<<<<"s", "p", "o", "r", "t">>>>, text)
        THEN "Sportswear"
    ELSE IF AnyWordIn(<<<<"b", "r", "i", "l", "l", "e">>, <<"e", "y", "e", "w", "e", "a", "r">>, <<"g", "l", "a", "s", "s", "e", "s">>>>, text)
        THEN "Eyewear"
    ELSE IF AnyWordIn(<<<<"v", "e", "s", "k", "e">>, <<"b", "a", "g">>, <<"l", "u", "g", "g", "a", "g", "e">>>>, text)
        THEN "Bags and Luggage"
    ELSE IF AnyWordIn(<<<<"s", "m", "y", "k", "k", "e">>, <<"j", "e", "w", "e", "l", "r", "y">>, <<"j", "e", "w", "e", "l", "l", "e", "r", "y">>>>, text)
        THEN "Jewellery"
    ELSE IF AnyWordIn(<<<<"k", "l", "o", "k", "k", "e">>, <<"w", "a", "t", "c", "h">>>>, text)
        THEN "Traditional and Connected Watches"
    ELSE "Apparel"

\* lines 111-126
FashionSubsegment(text) ==
    IF AnyWordIn(<<<<"b", "a", "r", "n">>, <<"c", "h", "i", "l", "d">>, <<"k", "i", "d">>>>, text)
        THEN "Childrenswear"
    ELSE IF AnyWordIn(<<<<"s", "k", "o">>, <<"s", "h", "o", "e">>, <<"f", "o", "o", "t", "w", "e", "a", "r">>>>, text)
        THEN "Footwear"
    ELSE IF AnyWordIn(<<<<"s", "p", "o", "r", "t">>>>, text)
        THEN "Sportswear"
    ELSE IF AnyWordIn(<<<<"b", "r", "i", "l", "l", "e">>, <<"e", "y", "e", "w", "e", "a", "r">>, <<"g", "l", "a", "s", "s", "e", "s">>>>, text)
        THEN "Eyewear"
    ELSE IF AnyWordIn(<<<<"v", "e", "s", "k", "e">>, <<"b", "a", "g">>, <<"l", "u", "g", "g", "a", "g", "e">>>>, text)
        THEN "Bags and Luggage"
    ELSE IF AnyWordIn(<<<<"s", "m", "y", "k", "k", "e">>, <<"j", "e", "w", "e", "l", "r", "y">>, <<"j", "e", "w", "e", "l", "l", "e", "r", "y">>>>, text)
        THEN "Jewellery"
    ELSE IF AnyWordIn(<<<<"k", "l", "o", "k", "k", "e">>, <<"w", "a", "t", "c", "h">>>>, text)
        THEN "Traditional and Connected Watches"
    ELSE "Apparel"

\* lines 129-144; the text is lower-cased, the word "IT" is not
ServicesSubsegment(text) ==
    IF AnyWordIn(<<<<"b", "a", "n", "k">>, <<"f", "i", "n", "a", "n", "s">>, <<"f", "i", "n", "a", "n", "c", "e">>>>, text)
        THEN "Finance & Insurance"
    ELSE IF AnyWordIn(<<<<"h", "a", "n", "d", "e", "l">>, <<"r", "e", "t", "a", "i", "l">>, <<"b", "u", "t", "i", "k", "k">>>>, text)
        THEN "Retail & Wholesale"
    ELSE IF AnyWordIn(<<<<"I", "T">>, <<"s", "o", "f", "t", "w", "a", "r", "e">>, <<"d", "a", "t", "a">>, <<"t", "e", "c", "h">>>>, text)
        THEN "Information & Communications"
    ELSE IF AnyWordIn(<<<<"b", "y", "g", "g">>, <<"c", "o", "n", "s", "t", "r", "u", "c", "t", "i", "o", "n">>, <<"e", "i", "e", "n", "d", "o", "m">>>>, text)
        THEN "Construction & Real Estate"
    ELSE IF AnyWordIn(<<<<"h", "o", "t", "e", "l", "l">>, <<"r", "e", "s", "t", "a", "u", "r", "a", "n", "t">>>>, text)
        THEN "Hotels & Restaurants"
    ELSE IF AnyWordIn(<<<<"s", "k", "o", "l", "e">>, <<"u", "t", "d", "a", "n", "n", "i", "n", "g">>, <<"e", "d", "u", "c", "a", "t", "i", "o", "n">>>>, text)
        THEN "Education"
    ELSE IF AnyWordIn(<<<<"t", "r", "a", "n", "s", "p", "o", "r", "t">>, <<"l", "o", "g", "i", "s", "t", "i", "k", "k">>>>, text)
        THEN "Transport & Storage"
    ELSE "Business Services"

\* the function with subsegments[-1] in place of subsegments[0] on line 147
get_subsegment_suggestionLastListed(category, data) ==
    IF category \notin DOMAIN PRODUCT_CATEGORIES
    THEN ""
    ELSE LET subsegments == PRODUCT_CATEGORIES[category].subsegments
         IN  IF subsegments = <<>>
             THEN ""
             ELSE IF category = "Fashion & Personal Accessories"
             THEN FashionSubsegment(SubsegmentText(data))
             ELSE IF category = "Services, Trade & Institutions"
             THEN ServicesSubsegment(SubsegmentText(data))
             ELSE subsegments[Len(subsegments)]

get_subsegment_suggestion(category, data) ==
    IF category \notin DOMAIN PRODUCT_CATEGORIES
    THEN ""
    ELSE LET subsegments == PRODUCT_CATEGORIES[category].subsegments
         IN  IF subsegments = <<>>
             THEN ""
             ELSE IF category = "Fashion & Personal Accessories"
             THEN FashionSubsegment(SubsegmentText(data))
             ELSE IF category = "Services, Trade & Institutions"
             THEN ServicesSubsegment(SubsegmentText(data))
             ELSE subsegments[1]

---------------------------------------------------------------------------
(* src/src/api_client.py.  A response of requests.get is a record: error is *)
(* the exception requests.get raised ("" when it returned), status the HTTP *)
(* status, body the shape of the payload ("invalid": not JSON, "array": a   *)
(* JSON array, "empty_object": an object without "_embedded", "page": an    *)
(* object with "_embedded"."enheter") and enheter the list of a page.       *)

\* one request without response.raise_for_status(): the payload of an error
\* status is parsed like any other
AttemptNoStatusCheck(response) ==
    IF response.error # ""
    THEN [exception |-> response.error, companies |-> <<>>]
    ELSE IF response.body = "invalid"
    THEN [exception |-> "JSONDecodeError", companies |-> <<>>]
    ELSE IF response.body = "array"
    THEN [exception |-> "AttributeError", companies |-> <<>>]
    ELSE IF response.body = "empty_object"
    THEN [exception |-> "", companies |-> <<>>]
    ELSE [exception |-> "", companies |-> response.enheter]

\* lines 36-50 and 61-65: one request, its status check, parsing and lookup;
\* exception is the name of the exception raised, "" when none is
Attempt(response) ==
    IF response.error # ""
    THEN [exception |-> response.error, companies |-> <<>>]
    ELSE IF response.status >= 400
    THEN [exception |-> "HTTPError", companies |-> <<>>]
    ELSE IF response.body = "invalid"
    THEN [exception |-> "JSONDecodeError", companies |-> <<>>]
    ELSE IF response.body = "array"
    THEN [exception |-> "AttributeError", companies |-> <<>>]
    ELSE IF response.body = "empty_object"
    THEN [exception |-> "", companies |-> <<>>]
    ELSE [exception |-> "", companies |-> response.enheter]

\* lines 33-72, given the responses of the first request and, after an
\* SSLError, of the retry without verification
fetch_companies_by_name(answers) ==
    LET first == Attempt(answers[1])
    IN  IF first.exception = "" THEN first.companies
        ELSE IF first.exception = "SSLError"
        THEN LET fallback == Attempt(answers[2])
             IN  IF fallback.exception = "" THEN fallback.companies ELSE <<>>
        ELSE <<>>

---------------------------------------------------------------------------
(* Inputs of categorize_company: the query names and the registry records   *)
(* the name search can answer with, at most MaxCandidates per answer.       *)

MaxCandidates == 3

SearchNames ==
    { <<"A", "C", "M", "E", " ", "A", "S">>,
      <<"A", "c", "m", "e", " ", "H", "o", "l", "d", "i", "n", "g">>,
      <<"B", "o", "l", "t">> }

\* no codes, taxonomy keyword "consulting" among the activities
AcmeConsulting ==
    [navn |-> <<"A", "c", "m", "e", " ", "A", "S">>,
     organisasjonsnummer |-> "910000001",
     aktivitet |-> << <<"c", "o", "n", "s", "u", "l", "t", "i", "n", "g">> >>,
     organisasjonsform |-> [kode |-> "AS"]]

\* one code with a taxonomy prefix; bankrupt foreign branch
AcmeHolding ==
    [navn |-> <<"A", "c", "m", "e", " ", "H", "o", "l", "d", "i", "n", "g">>,
     organisasjonsnummer |-> "910000002",
     naeringskode1 |->
         [kode |-> <<"4", "7", ".", "7", "1">>,
          beskrivelse |-> <<"r", "e", "t", "a", "i", "l", " ", "o", "f", " ",
                            "c", "l", "o", "t", "h", "i", "n", "g">>],
     konkurs |-> TRUE,
     organisasjonsform |-> [kode |-> "NUF"]]

\* one code whose description keyword outscores its prefix
AcmeJewelry ==
    [navn |-> <<"A", "c", "m", "e", " ", "A", "S">>,
     organisasjonsnummer |-> "910000003",
     naeringskode1 |->
         [kode |-> <<"1", "4", ".", "1", "3">>,
          beskrivelse |-> <<"j", "e", "w", "e", "l", "r", "y">>],
     konkurs |-> FALSE,
     organisasjonsform |-> [kode |-> "AS"]]

\* a code outside the taxonomy, taxonomy keyword "toys" among the purposes
BoltToys ==
    [navn |-> <<"B", "o", "l", "t", " ", "A", "S">>,
     organisasjonsnummer |-> "910000004",
     naeringskode2 |-> [kode |-> <<"4", "1", ".", "2", "0">>, beskrivelse |-> <<>>],
     vedtektsfestetFormaal |-> << <<"t", "o", "y", "s">> >>,
     organisasjonsform |-> [kode |-> "ENK"]]

\* a code outside the taxonomy and no keyword; closed down
BoltClosed ==
    [navn |-> <<"B", "o", "l", "t">>,
     organisasjonsnummer |-> "910000005",
     naeringskode1 |-> [kode |-> <<"4", "1", ".", "2", "0">>, beskrivelse |-> <<>>],
     nedleggelsesdato |-> <<"2", "0", "2", "0", "-", "0", "1", "-", "0", "1">>]

\* neither codes nor keywords
AcmeBare ==
    [navn |-> <<"A", "c", "m", "e">>,
     organisasjonsnummer |-> "910000006",
     underAvvikling |-> FALSE]

Registry == {AcmeConsulting, AcmeHolding, AcmeJewelry, BoltToys, BoltClosed, AcmeBare}

\* a response of requests.get
Response(error, status, body, enheter) ==
    [error |-> error, status |-> status, body |-> body, enheter |-> enheter]

\* the responses the registry and the network can give: pages of at most
\* MaxCandidates records, payloads of other shapes, error statuses (with
\* and without a page) and the exceptions of requests.get
Responses ==
    {Response("", 200, "page", l) : l \in ListsUpTo(Registry, MaxCandidates)}
    \cup {Response("", 200, b, <<>>) : b \in {"invalid", "array", "empty_object"}}
    \cup {Response("", s, "page", l) : s \in {404, 500}, l \in ListsUpTo(Registry, 1)}
    \cup {Response("", s, "invalid", <<>>) : s \in {404, 500}}
    \cup {Response(e, 0, "invalid", <<>>) : e \in {"ConnectionError", "Timeout", "SSLError"}}

---------------------------------------------------------------------------
(* src/src/categorizer.py: categorize_company, one call.  confidence_score  *)
(* is counted in thousandths (the result rounds it to 3 decimals).          *)

\* lines 158-178
NotFoundResult(name) ==
    [company_name |-> name,
     category |-> "Not Found",
     subsegment |-> "",
     method |-> "api_error",
     code |-> <<>>,
     description |-> <<"C", "o", "m", "p", "a", "n", "y", " ", "n", "o", "t", " ",
                       "f", "o", "u", "n", "d", " ", "i", "n", " ",
                       "r", "e", "g", "i", "s", "t", "r", "y">>,
     org_number |-> "",
     activities |-> <<>>,
     statutory_purposes |-> <<>>,
     confidence |-> "Low",
     selected_company |-> <<>>,
     categorized_by_naringskode |-> 0,
     num_naringskoder |-> 0,
     exact_code_match |-> 0,
     keyword_match |-> 0,
     confidence_score |-> 0,
     primary_naringskode |-> <<>>,
     matching_keywords |-> <<>>]

NoCall ==
    /\ naringskoder = <<>>
    /\ naringskode_result = <<>>
    /\ category_arg = ""

NoPool ==
    /\ calls = <<>>
    /\ batch = None
    /\ results = <<>>
    /\ futures = <<>>

Init ==
    /\ pc = "call"
    /\ company_name \in SearchNames
    /\ companies = <<>>
    /\ company_data = None
    /\ result = None
    /\ exception = ""
    /\ responses = <<>>
    /\ NoCall
    /\ NoPool

\* company_matcher.py line 135, api_client.py lines 15-72: the request, its
\* retry after an SSLError, and the list fetch_companies_by_name returns.
\* The two branches of line 35 issue the same request and differ only in
\* the verify argument, so SSL_VERIFY is not part of the state.
FetchCompanies ==
    /\ pc = "call"
    /\ \E first \in Responses :
          IF first.error = "SSLError"
          THEN \E fallback \in Responses : responses' = <<first, fallback>>
          ELSE responses' = <<first>>
    /\ companies' = fetch_companies_by_name(responses')
    /\ pc' = "fetched"
    /\ UNCHANGED <<company_name, company_data, result, exception,
                   naringskoder, naringskode_result>>
    /\ UNCHANGED <<poolVars, category_arg>>

\* categorizer.py line 155, company_matcher.py lines 137-157
FetchCompanyByName ==
    /\ pc = "fetched"
    /\ company_data' = fetch_company_by_name(companies, company_name)
    /\ pc' = "selected"
    /\ UNCHANGED <<company_name, companies, result, exception,
                   naringskoder, naringskode_result, responses>>
    /\ UNCHANGED <<poolVars, category_arg>>

\* categorizer.py lines 157-178: nothing was found
ReturnNotFound ==
    /\ pc = "selected"
    /\ company_data = None
    /\ result' = NotFoundResult(company_name)
    /\ pc' = "returned"
    /\ UNCHANGED <<company_name, companies, company_data, exception,
                   naringskoder, naringskode_result, responses>>
    /\ UNCHANGED <<poolVars, category_arg>>

\* categorizer.py line 180: company_data is the tuple (selected_company,
\* search_metadata) of company_matcher.py line 155, and company_data.get
\* raises AttributeError: 'tuple' object has no attribute 'get'.  No line
\* after 180 is executed and nothing catches the exception.
RaiseAttributeError ==
    /\ pc = "selected"
    /\ company_data # None
    /\ company_data.type = "tuple"
    /\ exception' = "AttributeError"
    /\ pc' = "raised"
    /\ UNCHANGED <<company_name, companies, company_data, result,
                   naringskoder, naringskode_result, responses>>
    /\ UNCHANGED <<poolVars, category_arg>>

Next ==
    \/ FetchCompanies
    \/ FetchCompanyByName
    \/ ReturnNotFound
    \/ RaiseAttributeError

Spec == Init /\ [][Next]_vars

---------------------------------------------------------------------------
(* Inputs of the industry-code categorizer: lists of at most MaxCodes      *)
(* industry codes drawn from SampleCodes.                                   *)

MaxCodes == 2

SampleCodes ==
    { [kode |-> <<"4", "6", ".", "4", "1">>,
       beskrivelse |-> <<"r", "e", "a", "l", " ", "e", "s", "t", "a", "t", "e">>],
      [kode |-> <<"4", "6", ".", "4", "9">>,
       beskrivelse |-> <<"h", "o", "u", "s", "e", "h", "o", "l", "d", " ", "g", "o", "o", "d", "s">>],
      [kode |-> <<"1", "4", ".", "1", "3">>,
       beskrivelse |-> <<"j", "e", "w", "e", "l", "r", "y">>],
      [kode |-> <<"4", "7", ".", "7", "1">>,
       beskrivelse |-> <<"r", "e", "t", "a", "i", "l", " ", "o", "f", " ", "c", "l", "o", "t", "h", "i", "n", "g">>],
      [kode |-> <<"1", "4", ".", "1", "3">>],
      [kode |-> <<"4", "1", ".", "2", "0">>, beskrivelse |-> <<>>],
      [kode |-> <<"9", "5", ".", "2", "5">>,
       beskrivelse |-> <<"w", "h", "o", "l", "e", "s", "a", "l", "e", " ", "o", "f", " ", "T", "o", "y", "s">>],
      [beskrivelse |-> <<"j", "e", "w", "e", "l", "r", "y">>],
      [kode |-> <<"6", "4", ".", "1", "9">>, beskrivelse |-> <<"b", "a", "n", "k">>] }

---------------------------------------------------------------------------
Idle ==
    /\ company_name = <<>>
    /\ companies = <<>>
    /\ company_data = None
    /\ result = None
    /\ exception = ""
    /\ responses = <<>>

InitNaringskode ==
    /\ pc = "nk_call"
    /\ naringskoder \in ListsUpTo(SampleCodes, MaxCodes)
    /\ naringskode_result = <<>>
    /\ category_arg = ""
    /\ Idle
    /\ NoPool

CategorizeByNaringskode ==
    /\ pc = "nk_call"
    /\ naringskode_result' = categorize_by_naringskode(naringskoder)
    /\ pc' = "nk_return"
    /\ UNCHANGED <<naringskoder, company_name, companies, company_data, result,
                   exception, responses>>
    /\ UNCHANGED <<poolVars, category_arg>>

NextNaringskode == CategorizeByNaringskode

SpecNaringskode == InitNaringskode /\ [][NextNaringskode]_vars

---------------------------------------------------------------------------
(* Inputs of the keyword categorizer: records whose name is one of          *)
(* SampleNames and one of whose text lists holds at most MaxTexts of the    *)
(* SampleTexts.  The texts carry keywords of several categories, of equal   *)
(* and of different lengths, in either case, and one keyword ("real        *)
(* estate") only arises when two texts are joined.                          *)

MaxTexts == 2

SampleTexts ==
    { <<"t", "o", "y", "s">>,
      <<"F", "o", "o", "d">>,
      <<"h", "e", "a", "l", "t", "h">>,
      <<"R", "e", "a", "l">>,
      <<"e", "s", "t", "a", "t", "e">>,
      <<"s", "p", "o", "r", "t", "s">> }

SampleNames == { <<"B", "o", "l", "t", " ", "A", "S">>, <<"H", "o", "m", "e">> }

TextFields == {"aktivitet", "vedtektsfestetFormaal", "frivilligMvaRegistrertBeskrivelser"}

KeywordRecords ==
    { [key \in {"navn", field} |-> IF key = "navn" THEN name ELSE texts] :
          name \in SampleNames, field \in TextFields,
          texts \in ListsUpTo(SampleTexts, MaxTexts) }

InitKeywords ==
    /\ pc = "kw_call"
    /\ company_data \in KeywordRecords
    /\ company_name = <<>>
    /\ companies = <<>>
    /\ result = None
    /\ exception = ""
    /\ responses = <<>>
    /\ NoCall
    /\ NoPool

\* categorizer.py lines 51-94; result holds the tuple the function returns
CategorizeByKeywords ==
    /\ pc = "kw_call"
    /\ result' = categorize_by_keywords(company_data)
    /\ pc' = "kw_return"
    /\ UNCHANGED <<company_name, companies, company_data, exception,
                   naringskoder, naringskode_result, responses>>
    /\ UNCHANGED <<poolVars, category_arg>>

NextKeywords == CategorizeByKeywords

SpecKeywords == InitKeywords /\ [][NextKeywords]_vars

---------------------------------------------------------------------------
(* Inputs of get_company_relevance_score: a search name and a record built  *)
(* from a name, one state of the inactivity indicators, one state of the    *)
(* text lists and one organization form.                                    *)

ScoreNames == { <<"A", "c", "m", "e", " ", "A", "S">>, <<"B", "o", "l", "t", " ", "H", "o", "l", "d", "i", "n", "g">> }

StatusFields ==
    { <<>>,
      [konkurs |-> TRUE],
      [konkurs |-> FALSE],
      [underAvvikling |-> TRUE],
      [underTvangsavviklingEllerTvangsopplosning |-> TRUE],
      [nedleggelsesdato |-> <<"2", "0", "2", "0", "-", "0", "1", "-", "0", "1">>] }

ActivityFields ==
    { <<>>,
      [aktivitet |-> << <<"c", "o", "n", "s", "u", "l", "t", "i", "n", "g">> >>],
      [aktivitet |-> <<>>],
      [vedtektsfestetFormaal |-> << <<"t", "o", "y", "s">> >>] }

FormFields ==
    { <<>> } \cup { [organisasjonsform |-> [kode |-> form]] :
                       form \in PrimaryForms \cup BranchForms \cup {"ANS"} }

ScoreRecords ==
    { ("navn" :> name) @@ status @@ texts @@ form :
          name \in ScoreNames, status \in StatusFields,
          texts \in ActivityFields, form \in FormFields }

InitRelevance ==
    /\ pc = "score_call"
    /\ company_data \in ScoreRecords
    /\ company_name \in SearchNames
    /\ companies = <<>>
    /\ result = None
    /\ exception = ""
    /\ responses = <<>>
    /\ NoCall
    /\ NoPool

\* company_matcher.py lines 13-40, with company_name as search_name; result
\* holds the score the function returns
GetCompanyRelevanceScore ==
    /\ pc = "score_call"
    /\ result' = get_company_relevance_score(company_data, company_name)
    /\ pc' = "score_return"
    /\ UNCHANGED <<company_name, companies, company_data, exception,
                   naringskoder, naringskode_result, responses>>
    /\ UNCHANGED <<poolVars, category_arg>>

NextRelevance == GetCompanyRelevanceScore

SpecRelevance == InitRelevance /\ [][NextRelevance]_vars

---------------------------------------------------------------------------
(* Inputs of get_subsegment_suggestion: every category of the taxonomy and  *)
(* two names that are not in it, and records whose name is one of           *)
(* SubsegmentNames and whose activities are at most MaxActivities of the    *)
(* SubsegmentTexts.  The texts carry a word of every branch of the two      *)
(* chains; "skole" also holds "sko" and "transport" also holds "sport".     *)

MaxActivities == 2

SubsegmentTexts ==
    { <<"b", "a", "r", "n">>,
      <<"s", "k", "o", "l", "e">>,
      <<"t", "r", "a", "n", "s", "p", "o", "r", "t">>,
      <<"b", "r", "i", "l", "l", "e", "r">>,
      <<"b", "a", "g">>,
      <<"j", "e", "w", "e", "l", "r", "y">>,
      <<"w", "a", "t", "c", "h">>,
      <<"b", "a", "n", "k">>,
      <<"b", "u", "t", "i", "k", "k">>,
      <<"s", "o", "f", "t", "w", "a", "r", "e">>,
      <<"b", "y", "g", "g">>,
      <<"h", "o", "t", "e", "l", "l">>,
      <<"I", "T">> }

SubsegmentNames == { <<"A", "c", "m", "e", " ", "A", "S">>, <<"K", "i", "d", "s", " ", "S", "h", "o", "e", " ", "S", "h", "o", "p">> }

SubsegmentCategories == DOMAIN PRODUCT_CATEGORIES \cup {"Uncategorized", "Not Found"}

SubsegmentRecords ==
    { [navn |-> name, aktivitet |-> texts] :
          name \in SubsegmentNames, texts \in ListsUpTo(SubsegmentTexts, MaxActivities) }

InitSubsegment ==
    /\ pc = "sub_call"
    /\ category_arg \in SubsegmentCategories
    /\ company_data \in SubsegmentRecords
    /\ company_name = <<>>
    /\ companies = <<>>
    /\ result = None
    /\ exception = ""
    /\ responses = <<>>
    /\ naringskoder = <<>>
    /\ naringskode_result = <<>>
    /\ NoPool

\* categorizer.py lines 97-147; result holds the label the function returns
GetSubsegmentSuggestion ==
    /\ pc = "sub_call"
    /\ result' = get_subsegment_suggestion(category_arg, company_data)
    /\ pc' = "sub_return"
    /\ UNCHANGED <<company_name, companies, company_data, exception,
                   naringskoder, naringskode_result, responses>>
    /\ UNCHANGED <<poolVars, category_arg>>

NextSubsegment == GetSubsegmentSuggestion

SpecSubsegment == InitSubsegment /\ [][NextSubsegment]_vars

---------------------------------------------------------------------------
(* Inputs of has_naringskoder and extract_naringskoder: records in which    *)
(* each of the three code slots is absent or holds one of SlotValues: a     *)
(* code with its description, a code with an empty description, a           *)
(* description without the key "kode", or an empty code.                    *)

SlotValues ==
    { [kode |-> <<"4", "7", ".", "7", "1">>, beskrivelse |-> <<"r", "e", "t", "a", "i", "l", " ", "o", "f", " ", "c", "l", "o", "t", "h", "i", "n", "g">>],
      [kode |-> <<"4", "1", ".", "2", "0">>, beskrivelse |-> <<>>],
      [beskrivelse |-> <<"j", "e", "w", "e", "l", "r", "y">>],
      [kode |-> <<>>, beskrivelse |-> <<"t", "o", "y", "s">>] }

\* the ways to fill one slot: the key absent, or present with a value
SlotFields(slot) == { <<>> } \cup { slot :> value : value \in SlotValues }

SlotRecords ==
    { ("navn" :> <<"A", "c", "m", "e", " ", "A", "S">>) @@ first @@ second @@ third :
          first \in SlotFields("naeringskode1"),
          second \in SlotFields("naeringskode2"),
          third \in SlotFields("naeringskode3") }

InitExtract ==
    /\ pc = "extract_call"
    /\ company_data \in SlotRecords
    /\ company_name = <<>>
    /\ companies = <<>>
    /\ result = None
    /\ exception = ""
    /\ responses = <<>>
    /\ NoCall
    /\ NoPool

\* categorizer.py line 184, utils.py lines 42-49
ExtractNaringskoder ==
    /\ pc = "extract_call"
    /\ naringskoder' = extract_naringskoder(company_data)
    /\ pc' = "extract_return"
    /\ UNCHANGED <<company_name, companies, company_data, result, exception,
                   naringskode_result, responses>>
    /\ UNCHANGED <<poolVars, category_arg>>

NextExtract == ExtractNaringskoder

SpecExtract == InitExtract /\ [][NextExtract]_vars

---------------------------------------------------------------------------
(* categorize_company as a function of the query name and of the list the   *)
(* name search answered with: what the call returns or raises               *)
(* (categorizer.py lines 150-275).                                          *)

categorize_company(name, answer) ==
    IF fetch_company_by_name(answer, name) = None
    THEN [exception |-> "", result |-> NotFoundResult(name)]
    ELSE [exception |-> "AttributeError", result |-> None]

---------------------------------------------------------------------------
(* Concurrent calls of categorize_company: NumCalls invocations, each with  *)
(* its own locals, interleaved statement by statement like the threads of   *)
(* a worker pool.  The function has no module-level state to write.         *)

NumCalls == 2

\* the lists the name search answers with in this specification
CallAnswers ==
    {<<>>, <<AcmeHolding, BoltToys>>, <<BoltToys, AcmeHolding>>}

\* the locals of an invocation at its first statement
CallLocals(name) ==
    [pc |-> "call", company_name |-> name, companies |-> <<>>,
     company_data |-> None, result |-> None, exception |-> ""]

InitCalls ==
    /\ pc = "calls"
    /\ calls \in [1..NumCalls -> {CallLocals(name) : name \in SearchNames}]
    /\ batch = None
    /\ results = <<>>
    /\ futures = <<>>
    /\ Idle
    /\ NoCall

\* the variables no concurrent call touches
singleVars == <<pc, company_name, companies, company_data, result, exception,
                naringskoder, naringskode_result, responses, batch, results, futures,
                category_arg>>

\* company_matcher.py line 135
CallFetch(w) ==
    /\ calls[w].pc = "call"
    /\ \E answer \in CallAnswers :
          calls' = [calls EXCEPT ![w].companies = answer, ![w].pc = "fetched"]
    /\ UNCHANGED singleVars

\* a selection that is not a function of the call's inputs: any candidate
CallSelectAny(w) ==
    /\ calls[w].pc = "fetched"
    /\ \E i \in 0..Len(calls[w].companies) :
          /\ i = 0 <=> calls[w].companies = <<>>
          /\ calls' = [calls EXCEPT
                         ![w].company_data =
                             IF i = 0 THEN None
                             ELSE PyTuple(<<calls[w].companies[i],
                                            [total_matches |-> Len(calls[w].companies)]>>),
                         ![w].pc = "selected"]
    /\ UNCHANGED singleVars

\* a selection that reads the candidate list of the first invocation, as if
\* the list were kept in a module-level variable
CallSelectShared(w) ==
    /\ calls[w].pc = "fetched"
    /\ calls' = [calls EXCEPT
                   ![w].company_data =
                       fetch_company_by_name(calls[1].companies, calls[w].company_name),
                   ![w].pc = "selected"]
    /\ UNCHANGED singleVars

\* categorizer.py line 155, company_matcher.py lines 137-157
CallSelect(w) ==
    /\ calls[w].pc = "fetched"
    /\ calls' = [calls EXCEPT
                   ![w].company_data =
                       fetch_company_by_name(calls[w].companies, calls[w].company_name),
                   ![w].pc = "selected"]
    /\ UNCHANGED singleVars

\* categorizer.py lines 157-178
CallReturn(w) ==
    /\ calls[w].pc = "selected"
    /\ calls[w].company_data = None
    /\ calls' = [calls EXCEPT
                   ![w].result = NotFoundResult(calls[w].company_name),
                   ![w].pc = "returned"]
    /\ UNCHANGED singleVars

\* categorizer.py line 180
CallRaise(w) ==
    /\ calls[w].pc = "selected"
    /\ calls[w].company_data # None
    /\ calls[w].company_data.type = "tuple"
    /\ calls' = [calls EXCEPT
                   ![w].exception = "AttributeError",
                   ![w].pc = "raised"]
    /\ UNCHANGED singleVars

NextCalls ==
    \E w \in 1..NumCalls :
        \/ CallFetch(w)
        \/ CallSelect(w)
        \/ CallReturn(w)
        \/ CallRaise(w)

SpecCalls == InitCalls /\ [][NextCalls]_vars

---------------------------------------------------------------------------
(* src/src/processor.py: process_companies, sequential (lines 246-299) and  *)
(* concurrent (process_companies_concurrent, lines 150-225).  A future is   *)
(* "pending" until its task has run, then holds the name of the exception   *)
(* the task raised, and is "collected" once the as_completed loop has taken *)
(* it.                                                                      *)

\* line 243: len(companies) > 10
ConcurrentThreshold == 10

\* line 229: max_workers=5
max_workers == 5

MaxBatch == 11

\* the input rows: a batch repeats one of them, and its last row is either
\* that row again or one of LastCompanies, which has the same company_name
\* and another revenue
BatchCompanies ==
    {[company_name |-> <<"A", "C", "M", "E", " ", "A", "S">>, revenue |-> "1000"]}

LastCompanies ==
    BatchCompanies
        \cup {[company_name |-> <<"A", "C", "M", "E", " ", "A", "S">>, revenue |-> "2000"]}

\* the lists the name search answers with in this specification
BatchAnswers == {<<>>, <<AcmeConsulting>>, <<AcmeHolding>>}

\* lines 258-279 (and 115-136)
ResultRow(company, categorization_result) ==
    [company_name |-> company.company_name,
     company_category |-> categorization_result.category,
     category_id |-> Get(categorization_result, "category_id", 0),
     revenue |-> company.revenue,
     subsegment |-> Get(categorization_result, "subsegment", ""),
     confidence |-> Get(categorization_result, "confidence", ""),
     selected_company |-> Get(categorization_result, "selected_company", <<>>),
     org_number |-> Get(categorization_result, "org_number", ""),
     categorized_by_naringskode |->
         Get(categorization_result, "categorized_by_naringskode", 0),
     num_naringskoder |-> Get(categorization_result, "num_naringskoder", 0),
     exact_code_match |-> Get(categorization_result, "exact_code_match", 0),
     keyword_match |-> Get(categorization_result, "keyword_match", 0),
     confidence_score |-> Get(categorization_result, "confidence_score", 0),
     primary_naringskode |-> Get(categorization_result, "primary_naringskode", <<>>),
     matching_keywords |-> Get(categorization_result, "matching_keywords", <<>>),
     method |-> Get(categorization_result, "method", "")]

\* lines 204-213
ErrorRow(company) ==
    [company_name |-> company.company_name,
     company_category |-> "Error",
     category_id |-> 0,
     revenue |-> company.revenue,
     confidence_score |-> 0,
     method |-> "error"]

\* lines 216-222: company_names.index(name), len(company_names) if absent
SortKey(company_names, name) ==
    IF \E i \in 1..Len(company_names) : company_names[i] = name
    THEN SetMin({i \in 1..Len(company_names) : company_names[i] = name}) - 1
    ELSE Len(company_names)

\* lines 217-223: results.sort(key=...), a stable sort
SortRowInsert(company_names, sorted, row) ==
    LET k == Cardinality({i \in 1..Len(sorted) :
                 SortKey(company_names, sorted[i].company_name)
                     <= SortKey(company_names, row.company_name)})
    IN  SubSeq(sorted, 1, k) \o <<row>> \o SubSeq(sorted, k + 1, Len(sorted))

SortRows(rows, company_names) ==
    ForEach(LAMBDA sorted, row : SortRowInsert(company_names, sorted, row),
            <<>>, rows, 1)

InitBatch ==
    /\ pc = "process_companies"
    /\ batch \in {[companies |-> [i \in 1..n |-> IF i < n THEN company ELSE last],
                      concurrent |-> flag] :
                     n \in 0..MaxBatch, company \in BatchCompanies,
                     last \in LastCompanies, flag \in BOOLEAN}
    /\ results = <<>>
    /\ futures = <<>>
    /\ calls = <<>>
    /\ Idle
    /\ NoCall

\* the variables of a single call, which the batch keeps no copy of
callVars == <<company_name, companies, company_data, result,
              naringskoder, naringskode_result, responses, calls, category_arg>>

\* lines 243-251: the sequential path is taken
StartSequential ==
    /\ pc = "process_companies"
    /\ ~(batch.concurrent /\ Len(batch.companies) > ConcurrentThreshold)
    /\ pc' = "sequential"
    /\ UNCHANGED <<batch, results, futures, exception>>
    /\ UNCHANGED callVars

\* lines 253-292: one iteration of the loop.  categorize_company is called
\* outside any try, so what it raises leaves process_companies.
ProcessNextCompany ==
    /\ pc = "sequential"
    /\ Len(results) < Len(batch.companies)
    /\ \E answer \in BatchAnswers :
          LET company == batch.companies[Len(results) + 1]
              outcome == categorize_company(company.company_name, answer)
          IN  IF outcome.exception = ""
              THEN /\ results' = Append(results, ResultRow(company, outcome.result))
                   /\ UNCHANGED <<pc, exception>>
              ELSE /\ exception' = outcome.exception
                   /\ pc' = "batch_raised"
                   /\ UNCHANGED results
    /\ UNCHANGED <<batch, futures>>
    /\ UNCHANGED callVars

\* line 299
ReturnSequential ==
    /\ pc = "sequential"
    /\ Len(results) = Len(batch.companies)
    /\ pc' = "batch_returned"
    /\ UNCHANGED <<batch, results, futures, exception>>
    /\ UNCHANGED callVars

\* lines 243-244 and 183-188: the concurrent path, every task submitted
SubmitAll ==
    /\ pc = "process_companies"
    /\ batch.concurrent
    /\ Len(batch.companies) > ConcurrentThreshold
    /\ futures' = [i \in 1..Len(batch.companies) |-> "pending"]
    /\ pc' = "concurrent"
    /\ UNCHANGED <<batch, results, exception>>
    /\ UNCHANGED callVars

\* lines 107-112 in a worker thread: the pool starts tasks in submission
\* order, at most max_workers at a time; categorize_company is called with
\* the keyword quiet, which its signature (categorizer.py line 150) does
\* not have, so the task ends with TypeError
RunTask(i) ==
    /\ pc = "concurrent"
    /\ futures[i] = "pending"
    /\ Cardinality({j \in 1..(i - 1) : futures[j] = "pending"}) < max_workers
    /\ futures' = [futures EXCEPT ![i] = "TypeError"]
    /\ UNCHANGED <<pc, batch, results, exception>>
    /\ UNCHANGED callVars

\* lines 191-213: the as_completed loop takes a finished future;
\* future.result() raises and the except branch appends an error row
CollectFuture(i) ==
    /\ pc = "concurrent"
    /\ futures[i] \notin {"pending", "collected"}
    /\ results' = Append(results, ErrorRow(batch.companies[i]))
    /\ futures' = [futures EXCEPT ![i] = "collected"]
    /\ UNCHANGED <<pc, batch, exception>>
    /\ UNCHANGED callVars

\* lines 215-225
ReturnConcurrent ==
    /\ pc = "concurrent"
    /\ \A i \in DOMAIN futures : futures[i] = "collected"
    /\ results' = SortRows(results,
                           [i \in 1..Len(batch.companies) |->
                               batch.companies[i].company_name])
    /\ pc' = "batch_returned"
    /\ UNCHANGED <<batch, futures, exception>>
    /\ UNCHANGED callVars

NextBatch ==
    \/ StartSequential
    \/ ProcessNextCompany
    \/ ReturnSequential
    \/ SubmitAll
    \/ \E i \in DOMAIN futures : RunTask(i)
    \/ \E i \in DOMAIN futures : CollectFuture(i)
    \/ ReturnConcurrent

SpecBatch == InitBatch /\ [][NextBatch]_vars

---------------------------------------------------------------------------
(* Properties of categorize_by_naringskode *)

\* every (category, code, prefix) of the call in which the code starts with
\* one of the category's prefixes
PrefixMatches(nks) ==
    UNION { UNION { { [category |-> c,
                       code |-> Get(nks[i], "kode", <<>>),
                       length |-> Len(PRODUCT_CATEGORIES[c].codes[j])]
                      : j \in { k \in 1..Len(PRODUCT_CATEGORIES[c].codes) :
                                  startswith(Get(nks[i], "kode", <<>>),
                                             PRODUCT_CATEGORIES[c].codes[k]) } }
                    : i \in 1..Len(nks) }
            : c \in DOMAIN PRODUCT_CATEGORIES }

\* the tag carries no "(keyword: ...)" suffix
PlainTag(tag) == ~contains(tag, <<"(", "k", "e", "y", "w", "o", "r", "d", ":">>)

Returned == pc = "nk_return"

\* C9: whenever some code starts with a prefix of some category, the returned
\* tag is a plain code and the returned category and code are those of a
\* prefix match (a description keyword never outranks a code prefix).
C9_PrefixOutranksKeyword ==
    (Returned /\ PrefixMatches(naringskoder) # {}) =>
        /\ PlainTag(naringskode_result[2])
        /\ \E m \in PrefixMatches(naringskoder) :
               /\ m.category = naringskode_result[1]
               /\ m.code = naringskode_result[2]

\* C10: a returned prefix match is one of greatest prefix length among all
\* the prefix matches of the call: the category and code of a shorter
\* matching prefix are never returned when a longer matching prefix exists.
C10_LongestPrefixWins ==
    (Returned /\ PrefixMatches(naringskoder) # {} /\ PlainTag(naringskode_result[2])) =>
        \E m \in PrefixMatches(naringskoder) :
            /\ m.category = naringskode_result[1]
            /\ m.code = naringskode_result[2]
            /\ \A o \in PrefixMatches(naringskoder) : o.length <= m.length

\* C10 witness: prefixes of different lengths match (in different categories
\* or codes) and a plain code was returned.
C10_Witness ==
    /\ Returned
    /\ PlainTag(naringskode_result[2])
    /\ \E m, o \in PrefixMatches(naringskoder) :
           /\ m.length < o.length
           /\ m.category # o.category
           /\ o.category = naringskode_result[1]
           /\ o.code = naringskode_result[2]

---------------------------------------------------------------------------
(* Properties of one call of categorize_company *)

Finished == pc \in {"returned", "raised"}

AfterSelection == pc \in {"selected", "returned", "raised"}

\* the record fetch_company_by_name selected
SelectedCompany == company_data.items[1]

\* the positions of the candidates that have an industry code
CodedPositions == {i \in 1..Len(companies) : has_naringskoder(companies[i])}

\* The path of section 4.5 that a selected record takes: what the code
\* categorizer and the keyword categorizer answer for it.
MatchPath(data) ==
    LET by_code == categorize_by_naringskode(extract_naringskoder(data))
        by_keyword == categorize_by_keywords(data)
        codes == IF Len(extract_naringskoder(data)) > 0 THEN "codes" ELSE "no_codes"
    IN  IF Len(extract_naringskoder(data)) > 0 /\ by_code[1] # "Uncategorized"
        THEN IF PlainTag(by_code[2]) THEN <<"exact_code", codes>>
                                     ELSE <<"code_keyword", codes>>
        ELSE IF by_keyword[2] # NoMatchCode THEN <<"keyword_fallback", codes>>
                                            ELSE <<"no_match", codes>>

\* the confidence label the claims give to a path
PathLabel(path) ==
    IF path[1] \in {"exact_code", "code_keyword"} THEN "High"
    ELSE IF path[1] = "keyword_fallback" THEN "Medium"
    ELSE "Low"

\* the base score the claims give to a path, in thousandths
PathScore(path) ==
    IF path[1] = "exact_code" THEN 950
    ELSE IF path[1] = "code_keyword" THEN 750
    ELSE IF path[1] = "keyword_fallback" THEN (IF path[2] = "codes" THEN 600 ELSE 500)
    ELSE (IF path[2] = "codes" THEN 200 ELSE 100)

\* score * 0.9, rounded to 3 decimals, in thousandths
Adjusted(score) == (score * 9 + 5) \div 10

SameName == lower(Get(SelectedCompany, "navn", <<>>)) = lower(company_name)

\* C1: every call returns exactly one result record and raises nothing,
\* whatever list the fetch step answered with.
C1_ReturnsOneResult ==
    Finished => (pc = "returned" /\ exception = "" /\ result # None)

\* C2: when the fetch answers with the empty list, the call returns category
\* "Not Found", method "api_error", confidence "Low", score 0.0 and every
\* numeric flag 0.
C2_EmptyFetchNotFound ==
    (Finished /\ companies = <<>>) =>
        /\ pc = "returned"
        /\ result.category = "Not Found"
        /\ result.method = "api_error"
        /\ result.confidence = "Low"
        /\ result.confidence_score = 0
        /\ result.categorized_by_naringskode = 0
        /\ result.num_naringskoder = 0
        /\ result.exact_code_match = 0
        /\ result.keyword_match = 0

\* C2 witness: a call that returned after an empty fetch
C2_Witness == pc = "returned" /\ companies = <<>>

\* C3: of two or more candidates of which exactly one has an industry code,
\* that one is selected, whatever the names, statuses, texts, forms and
\* positions.
C3_OnlyCodedCandidateSelected ==
    (AfterSelection /\ Len(companies) >= 2 /\ Cardinality(CodedPositions) = 1) =>
        /\ company_data # None
        /\ \A i \in CodedPositions : SelectedCompany = companies[i]

\* C3 witness: the only candidate with a code is selected although it is
\* inactive, not the first of the list, and scored below every other
\* candidate.
C3_Witness ==
    /\ AfterSelection
    /\ Len(companies) >= 2
    /\ Cardinality(CodedPositions) = 1
    /\ company_data # None
    /\ \A i \in CodedPositions :
           /\ i > 1
           /\ SelectedCompany = companies[i]
           /\ ~is_company_active(companies[i])
           /\ \A j \in 1..Len(companies) :
                  j # i => FracGT(get_company_relevance_score(companies[j], company_name),
                                  get_company_relevance_score(companies[i], company_name))

\* C4: the call returns the label and the base score of the path taken
\* (High 0.95, High 0.75, Medium 0.60 or 0.50, Low 0.20 or 0.10, and Low 0.0
\* when nothing is found), the score possibly adjusted for a name mismatch
\* and the label never.
C4_LabelAndScoreByPath ==
    Finished =>
        /\ pc = "returned"
        /\ IF company_data = None
           THEN result.confidence = "Low" /\ result.confidence_score = 0
           ELSE /\ result.confidence = PathLabel(MatchPath(SelectedCompany))
                /\ result.confidence_score \in
                       {PathScore(MatchPath(SelectedCompany)),
                        Adjusted(PathScore(MatchPath(SelectedCompany)))}

\* the categories with a keyword in the text of a record
KeywordCategories(data) ==
    {c \in DOMAIN PRODUCT_CATEGORIES : Len(MatchedKeywords(c, CombinedText(data))) > 0}

\* C5: a single candidate without codes, named as the query, whose text has
\* keywords of "Services, Trade & Institutions" only, is returned as that
\* category by method "keywords" with confidence "Medium" and score 0.6.
C5_SingleKeywordCandidate ==
    (/\ Finished
     /\ Len(companies) = 1
     /\ Len(extract_naringskoder(companies[1])) = 0
     /\ lower(Get(companies[1], "navn", <<>>)) = lower(company_name)
     /\ KeywordCategories(companies[1]) = {"Services, Trade & Institutions"}) =>
        /\ pc = "returned"
        /\ result.category = "Services, Trade & Institutions"
        /\ result.method = "keywords"
        /\ result.confidence = "Medium"
        /\ result.confidence_score = 600

\* C6: the score of a call that selected a record named differently from the
\* query is 0.9 times (rounded to 3 decimals) the score the same path has
\* when the names are equal, which is the base score of the path.
C6_NameMismatchFactor ==
    (Finished /\ company_data # None) =>
        /\ pc = "returned"
        /\ result.confidence_score =
               IF SameName THEN PathScore(MatchPath(SelectedCompany))
                           ELSE Adjusted(PathScore(MatchPath(SelectedCompany)))

\* the tiers of C7, lowest first
TierRank(path) ==
    IF path[1] = "exact_code" THEN 4
    ELSE IF path[1] = "code_keyword" THEN 3
    ELSE IF path[1] = "keyword_fallback" THEN 2
    ELSE 1

\* the scores a tier can take: its base scores, adjusted or not
TierScores(rank) ==
    IF rank = 0 THEN {0}
    ELSE LET base == {PathScore(<<p, c>>) :
                         p \in {q \in {"exact_code", "code_keyword", "keyword_fallback", "no_match"} :
                                   TierRank(<<q, "codes">>) = rank},
                         c \in {"codes", "no_codes"}}
         IN  base \cup {Adjusted(s) : s \in base}

\* C7: the score a call returns is greater than every score of every lower
\* tier and smaller than every score of every higher tier (exact code >
\* keyword in a code description > matched keyword fallback > no match >
\* not found), the name-mismatch adjustment included.
C7_ScoresOrderedByTier ==
    (Finished /\ company_data # None) =>
        /\ pc = "returned"
        /\ \A r \in 0..4 : \A s \in TierScores(r) :
               /\ r < TierRank(MatchPath(SelectedCompany)) => s < result.confidence_score
               /\ r > TierRank(MatchPath(SelectedCompany)) => s > result.confidence_score

\* C8: a call whose selected record the code categorizer categorizes returns
\* a result with categorized_by_naringskode = 1 in which exactly one of
\* exact_code_match and keyword_match is 1.
C8_ExactlyOneMatchFlag ==
    (Finished /\ company_data # None
              /\ MatchPath(SelectedCompany)[1] \in {"exact_code", "code_keyword"}) =>
        /\ pc = "returned"
        /\ result.categorized_by_naringskode = 1
        /\ result.exact_code_match + result.keyword_match = 1

\* C11: every result a call returns has a key category_id whose value is
\* the id CATEGORY_IDS gives to the result's category.
C11_ResultCarriesCategoryId ==
    (pc = "returned") =>
        /\ "category_id" \in DOMAIN result
        /\ result.category_id = CATEGORY_IDS[result.category]

---------------------------------------------------------------------------
(* Properties of concurrent and repeated calls *)

CallFinished(w) == calls[w].pc \in {"returned", "raised"}

---------------------------------------------------------------------------
(* Properties of select_best_company_match, read off the call of            *)
(* categorize_company after the selection step                              *)

\* C13: the selection yields no record exactly when the candidate list is
\* empty; otherwise it yields one record, which is a member of the list,
\* and for a list of one candidate it is that candidate.
C13_SelectsOneMember ==
    AfterSelection =>
        /\ (company_data = None) <=> (companies = <<>>)
        /\ companies # <<>> =>
               \E i \in 1..Len(companies) : SelectedCompany = companies[i]
        /\ Len(companies) = 1 => SelectedCompany = companies[1]

\* C13 witness: several candidates, none with a code, and the selected one
\* is not the first of the list
C13_Witness ==
    /\ pc = "selected"
    /\ Len(companies) > 1
    /\ CodedPositions = {}
    /\ SelectedCompany # companies[1]

---------------------------------------------------------------------------
(* Further properties of categorize_company *)

\* the optional fields of a registry record that the categorizers read
OptionalFields ==
    {"naeringskode1", "naeringskode2", "naeringskode3", "aktivitet",
     "vedtektsfestetFormaal", "frivilligMvaRegistrertBeskrivelser",
     "organisasjonsform"}

\* C14: a call whose selected record has none of the optional fields (no
\* code slot, no activities, no purposes, no VAT descriptions, no
\* organization form) completes and returns a result; it raises nothing.
C14_MissingFieldsReturnResult ==
    (/\ Finished
     /\ company_data # None
     /\ DOMAIN SelectedCompany \cap OptionalFields = {}) =>
        /\ pc = "returned"
        /\ exception = ""
        /\ result # None

---------------------------------------------------------------------------
(* Properties of the batch processor *)

BatchFinished == pc \in {"batch_returned", "batch_raised"}

\* C15: every batch ends by returning one row per input company, in the
\* order of the input, whatever happened while categorizing a company; no
\* failure leaves process_companies.
C15_EveryCompanyGetsARow ==
    BatchFinished =>
        /\ pc = "batch_returned"
        /\ Len(results) = Len(batch.companies)
        /\ \A i \in 1..Len(results) :
               results[i].company_name = batch.companies[i].company_name

\* a request that failed: requests.get raised, or the status is an error
\* status, or the payload is not a JSON object
Failed(response) ==
    \/ response.error # ""
    \/ response.status >= 400
    \/ response.body \in {"invalid", "array"}

\* the fetch failed: the first request failed and, if it failed with an
\* SSLError, the retry without verification failed as well
FetchFailed ==
    /\ Len(responses) > 0
    /\ Failed(responses[1])
    /\ responses[1].error = "SSLError" => Failed(responses[2])

C18_SelectedHasCodeIfAnyHas ==
    (AfterSelection /\ CodedPositions # {}) => has_naringskoder(SelectedCompany)

\* C18 witness: two candidates with codes were scored, and a candidate
\* without codes has a greater relevance score than the selected record
C18_Witness ==
    /\ pc = "selected"
    /\ Cardinality(CodedPositions) >= 2
    /\ \E i \in 1..Len(companies) :
          /\ i \notin CodedPositions
          /\ FracGT(get_company_relevance_score(companies[i], company_name),
                    get_company_relevance_score(SelectedCompany, company_name))

---------------------------------------------------------------------------
(* The tie-break, stated over the positions of the candidate list *)

\* the positions that are scored: those with codes if there are at least
\* two of them, else all
ScoredPositions ==
    IF Cardinality(CodedPositions) >= 2 THEN CodedPositions ELSE 1..Len(companies)

ScoreAt(i) == get_company_relevance_score(companies[i], company_name)

\* position i comes before position j in descending score order, input
\* order deciding between equal scores
Before(i, j) ==
    \/ FracGT(ScoreAt(i), ScoreAt(j))
    \/ (~FracGT(ScoreAt(j), ScoreAt(i)) /\ i < j)

\* the first position of a non-empty set of positions in that order
FirstOf(S) == CHOOSE i \in S : \A j \in S \ {i} : Before(i, j)

\* the positions whose score is within 0.10 of the top score
ClosePositions(top) ==
    {i \in ScoredPositions : FracClose(ScoreAt(i), ScoreAt(top))}

ActiveClosePositions(top) ==
    {i \in ClosePositions(top) : is_company_active(companies[i])}

\* the position the tie-break rule designates
TieBreakPosition(top) ==
    IF /\ Cardinality(ClosePositions(top)) > 1
       /\ Cardinality(CodedPositions) >= 2
       /\ ActiveClosePositions(top) # {}
    THEN FirstOf(ActiveClosePositions(top))
    ELSE top

\* the candidates were scored: two or more, and not exactly one with codes
WasScored ==
    /\ pc = "selected"
    /\ Len(companies) >= 2
    /\ Cardinality(CodedPositions) # 1

---------------------------------------------------------------------------
(* The order of the categorizers in categorize_company *)

\* C20: a call with a selected record returns a result whose method is
\* "naringskode", with categorized_by_naringskode = 1 and the category of
\* the code categorizer, when the record has codes and the code
\* categorizer finds a category; otherwise its method is "keywords", with
\* categorized_by_naringskode = 0 and the category of the keyword
\* categorizer.
C20_CodeCategorizerFirst ==
    (Finished /\ company_data # None) =>
        /\ pc = "returned"
        /\ IF MatchPath(SelectedCompany)[1] \in {"exact_code", "code_keyword"}
           THEN /\ result.method = "naringskode"
                /\ result.categorized_by_naringskode = 1
                /\ result.category =
                       categorize_by_naringskode(extract_naringskoder(SelectedCompany))[1]
           ELSE /\ result.method = "keywords"
                /\ result.categorized_by_naringskode = 0
                /\ result.category = categorize_by_keywords(SelectedCompany)[1]

---------------------------------------------------------------------------
(* Properties of categorize_by_keywords *)

\* the summed length of the keywords of a category found in the text
KeywordSum(category, combined_text) ==
    SumOfLengths(MatchedKeywords(category, combined_text))

\* the sum of every category, by position in the taxonomy order
KeywordSums(combined_text) ==
    [i \in DOMAIN CATEGORY_ORDER |-> KeywordSum(CATEGORY_ORDER[i], combined_text)]

\* the positions in the taxonomy order of the categories of greatest sum
BestKeywordPositions(sums) ==
    { i \in DOMAIN sums : \A j \in DOMAIN sums : sums[j] <= sums[i] }

KeywordsReturned == pc = "kw_return"

\* C21: categorize_by_keywords returns the category whose matched keywords
\* have the greatest summed length over the combined lower-cased text; of
\* the categories of equal greatest sum the first in taxonomy order is
\* returned; when no category has a sum above 0 the result is
\* ("Uncategorized", "no_match", "").
C21_GreatestKeywordSumWins ==
    KeywordsReturned =>
        LET sums == KeywordSums(CombinedText(company_data))
            first == SetMin(BestKeywordPositions(sums))
        IN  IF sums[first] > 0
            THEN /\ result[1] = CATEGORY_ORDER[first]
                 /\ result[2] = KeywordMatchCode
            ELSE result = <<"Uncategorized", NoMatchCode, <<>>>>

\* C21 witness: two categories share the greatest sum, which is above 0,
\* and the one that comes first in the taxonomy order was returned.
C21_Witness ==
    /\ KeywordsReturned
    /\ LET sums == KeywordSums(CombinedText(company_data))
           best == BestKeywordPositions(sums)
       IN  /\ Cardinality(best) > 1
           /\ sums[SetMin(best)] > 0
           /\ result[1] = CATEGORY_ORDER[SetMin(best)]

---------------------------------------------------------------------------
(* The order in which categorize_by_naringskode meets its matches *)

\* every match of the call: its category (by position in the taxonomy
\* order), its code slot, its kind (0 for a prefix, 1 for a keyword), its
\* position in the category's list, its score in half points and its tag
AllMatches(nks) ==
    UNION { UNION {
        { [category |-> c, slot |-> i, kind |-> 0, position |-> j,
           score |-> PrefixScore(PRODUCT_CATEGORIES[CATEGORY_ORDER[c]].codes[j]),
           tag |-> Get(nks[i], "kode", <<>>)]
            : j \in { k \in DOMAIN PRODUCT_CATEGORIES[CATEGORY_ORDER[c]].codes :
                        startswith(Get(nks[i], "kode", <<>>),
                                   PRODUCT_CATEGORIES[CATEGORY_ORDER[c]].codes[k]) } }
        \cup
        { [category |-> c, slot |-> i, kind |-> 1, position |-> j,
           score |-> KeywordScore(PRODUCT_CATEGORIES[CATEGORY_ORDER[c]].keywords[j]),
           tag |-> KeywordTag(Get(nks[i], "kode", <<>>),
                              PRODUCT_CATEGORIES[CATEGORY_ORDER[c]].keywords[j])]
            : j \in { k \in DOMAIN PRODUCT_CATEGORIES[CATEGORY_ORDER[c]].keywords :
                        contains(lower(Get(nks[i], "beskrivelse", <<>>)),
                                 lower(PRODUCT_CATEGORIES[CATEGORY_ORDER[c]].keywords[k])) } }
        : i \in 1..Len(nks) } : c \in DOMAIN CATEGORY_ORDER }

\* m is met before o: category order, then slot order, then prefixes
\* before keywords, then the order of the category's list
MetBefore(m, o) ==
    \/ m.category < o.category
    \/ m.category = o.category /\ m.slot < o.slot
    \/ m.category = o.category /\ m.slot = o.slot /\ m.kind < o.kind
    \/ m.category = o.category /\ m.slot = o.slot /\ m.kind = o.kind
           /\ m.position < o.position

\* the matches of greatest score
BestMatches(matches) == { m \in matches : \A o \in matches : o.score <= m.score }

\* C22: the returned match is, of the matches of greatest score, the one
\* met first (category order, then slot order, then prefix before keyword),
\* and ("Uncategorized", "", "") is returned when there is no match; a
\* returned plain code that starts with "46.49" is in "Home & Living".
C22_FirstMetWinsAmongEqual ==
    Returned =>
        LET best == BestMatches(AllMatches(naringskoder))
        IN  /\ IF best = {}
               THEN naringskode_result = <<"Uncategorized", <<>>, <<>>>>
               ELSE \E m \in best :
                        /\ \A o \in best : ~MetBefore(o, m)
                        /\ naringskode_result[1] = CATEGORY_ORDER[m.category]
                        /\ naringskode_result[2] = m.tag
            /\ (/\ PlainTag(naringskode_result[2])
                /\ startswith(naringskode_result[2], <<"4", "6", ".", "4", "9">>))
                    => naringskode_result[1] = "Home & Living"

\* C22 witness: a code starting with "46.49" gave two prefix matches of
\* the greatest score, in "Home & Living" and in "Toys, Games & Leisure
\* Goods", and the call returned "Home & Living".
C22_Witness ==
    /\ Returned
    /\ LET best == BestMatches(AllMatches(naringskoder))
       IN  \E m, o \in best :
               /\ CATEGORY_ORDER[m.category] = "Home & Living"
               /\ CATEGORY_ORDER[o.category] = "Toys, Games & Leisure Goods"
               /\ m.kind = 0 /\ o.kind = 0
               /\ startswith(m.tag, <<"4", "6", ".", "4", "9">>)
    /\ naringskode_result[1] = "Home & Living"

---------------------------------------------------------------------------
(* The tag of the code categorizer as read back by categorize_company *)

\* C23: when the code categorizer answers for the selected record with the
\* tag "<code> (keyword: <keyword>)", the call returns a result with
\* keyword_match = 1, exact_code_match = 0, primary_naringskode = <code> and
\* matching_keywords = <keyword>; when it answers with a plain code, the
\* result has exact_code_match = 1, keyword_match = 0, primary_naringskode
\* = that code and matching_keywords empty.
C23_TagRoundTrip ==
    (Finished /\ company_data # None
              /\ MatchPath(SelectedCompany)[1] \in {"exact_code", "code_keyword"}) =>
        LET codes == extract_naringskoder(SelectedCompany)
            tag == categorize_by_naringskode(codes)[2]
        IN  /\ pc = "returned"
            /\ IF PlainTag(tag)
               THEN /\ result.exact_code_match = 1
                    /\ result.keyword_match = 0
                    /\ result.primary_naringskode = tag
                    /\ result.matching_keywords = <<>>
               ELSE \E i \in DOMAIN codes, c \in DOMAIN PRODUCT_CATEGORIES :
                    \E k \in DOMAIN PRODUCT_CATEGORIES[c].keywords :
                        /\ tag = KeywordTag(Get(codes[i], "kode", <<>>),
                                            PRODUCT_CATEGORIES[c].keywords[k])
                        /\ result.keyword_match = 1
                        /\ result.exact_code_match = 0
                        /\ result.primary_naringskode = Get(codes[i], "kode", <<>>)
                        /\ result.matching_keywords = PRODUCT_CATEGORIES[c].keywords[k]

---------------------------------------------------------------------------
(* Properties of get_company_relevance_score *)

ScoreReturned == pc = "score_return"

\* the additions of the claim, in hundredths: 25 for an active record, 10
\* for any activity or statutory-purpose text, 5 or -2 for the form
ClaimedAdditions(data) ==
    LET inactive ==
            \/ "konkurs" \in DOMAIN data /\ data.konkurs
            \/ "underAvvikling" \in DOMAIN data /\ data.underAvvikling
            \/ /\ "underTvangsavviklingEllerTvangsopplosning" \in DOMAIN data
               /\ data.underTvangsavviklingEllerTvangsopplosning
            \/ "nedleggelsesdato" \in DOMAIN data /\ data.nedleggelsesdato # <<>>
        has_text ==
            \/ "aktivitet" \in DOMAIN data /\ data.aktivitet # <<>>
            \/ /\ "vedtektsfestetFormaal" \in DOMAIN data
               /\ data.vedtektsfestetFormaal # <<>>
        form == IF "organisasjonsform" \in DOMAIN data
                THEN data.organisasjonsform.kode ELSE ""
    IN  (IF inactive THEN 0 ELSE 25)
        + (IF has_text THEN 10 ELSE 0)
        + (IF form \in {"AS", "ASA", "ENK", "DA", "BA", "SA"} THEN 5
           ELSE IF form \in {"NUF", "FIL"} THEN -2 ELSE 0)

\* C24: the relevance score equals 0.60 x name similarity + 0.25 if active
\* + 0.10 if there is activity or statutory-purpose text + 0.05 or - 0.02
\* by organization form; the similarity lies in [0, 1] and the score in
\* [-0.1, 1.0].
C24_RelevanceScoreFormula ==
    ScoreReturned =>
        LET similarity == similarity_score(company_name, company_data.navn)
        IN  /\ 0 <= similarity.num /\ similarity.num <= similarity.den
            /\ result.num * 100 * similarity.den
                   = (60 * similarity.num + ClaimedAdditions(company_data) * similarity.den)
                         * result.den
            /\ -result.den <= 10 * result.num
            /\ result.num <= result.den

\* C24 witness: scores at both ends: 1.0 for an active record of form AS
\* with text and the searched name, and a negative score for a closed
\* foreign branch whose name shares nothing with the search.
C24_Witness ==
    /\ ScoreReturned
    /\ \/ /\ result.num = result.den
          /\ ClaimedAdditions(company_data) = 40
       \/ /\ result.num < 0
          /\ ClaimedAdditions(company_data) = -2

---------------------------------------------------------------------------
(* Properties of get_subsegment_suggestion *)

SubsegmentReturned == pc = "sub_return"

\* the term groups of "Fashion & Personal Accessories" in their priority
\* order: children, footwear, sport, eyewear, bag/luggage, jewelry, watch
FashionPriority ==
    << [subsegment |-> "Childrenswear",
        terms |-> <<<<"b", "a", "r", "n">>, <<"c", "h", "i", "l", "d">>, <<"k", "i", "d">>>>],
       [subsegment |-> "Footwear",
        terms |-> <<<<"s", "k", "o">>, <<"s", "h", "o", "e">>, <<"f", "o", "o", "t", "w", "e", "a", "r">>>>],
       [subsegment |-> "Sportswear",
        terms |-> <<<<"s", "p", "o", "r", "t">>>>],
       [subsegment |-> "Eyewear",
        terms |-> <<<<"b", "r", "i", "l", "l", "e">>, <<"e", "y", "e", "w", "e", "a", "r">>, <<"g", "l", "a", "s", "s", "e", "s">>>>],
       [subsegment |-> "Bags and Luggage",
        terms |-> <<<<"v", "e", "s", "k", "e">>, <<"b", "a", "g">>, <<"l", "u", "g", "g", "a", "g", "e">>>>],
       [subsegment |-> "Jewellery",
        terms |-> <<<<"s", "m", "y", "k", "k", "e">>, <<"j", "e", "w", "e", "l", "r", "y">>, <<"j", "e", "w", "e", "l", "l", "e", "r", "y">>>>],
       [subsegment |-> "Traditional and Connected Watches",
        terms |-> <<<<"k", "l", "o", "k", "k", "e">>, <<"w", "a", "t", "c", "h">>>>] >>

\* the positions of the groups one of whose terms occurs in the text
GroupsPresent(text) ==
    { i \in DOMAIN FashionPriority :
          \E j \in DOMAIN FashionPriority[i].terms :
              contains(text, FashionPriority[i].terms[j]) }

\* C25: for "Fashion & Personal Accessories" the subsegment is that of the
\* first group, in the priority order, with a term in the lower-cased
\* name and activities, and "Apparel" when no group has one.
C25_FashionPriorityOrder ==
    (SubsegmentReturned /\ category_arg = "Fashion & Personal Accessories") =>
        LET present == GroupsPresent(SubsegmentText(company_data))
        IN  result = IF present = {}
                     THEN "Apparel"
                     ELSE FashionPriority[SetMin(present)].subsegment

\* C25 witness: terms of two or more groups occur in the text, none of
\* them the children group, and the earliest group's subsegment was
\* returned.
C25_Witness ==
    /\ SubsegmentReturned
    /\ category_arg = "Fashion & Personal Accessories"
    /\ LET present == GroupsPresent(SubsegmentText(company_data))
       IN  /\ Cardinality(present) >= 2
           /\ 1 \notin present
           /\ result = FashionPriority[SetMin(present)].subsegment

\* the categories whose subsegment depends on the record
BespokeCategories == {"Fashion & Personal Accessories", "Services, Trade & Institutions"}

\* C26: for a category that is not in the taxonomy the function returns
\* "", and for a taxonomy category without bespoke rules it returns the
\* first subsegment listed for the category, whatever the text.
C26_DefaultSubsegment ==
    SubsegmentReturned =>
        /\ category_arg \notin DOMAIN PRODUCT_CATEGORIES => result = ""
        /\ category_arg \in DOMAIN PRODUCT_CATEGORIES \ BespokeCategories =>
               result = PRODUCT_CATEGORIES[category_arg].subsegments[1]

\* C26 witness: a category without bespoke rules and with several listed
\* subsegments, a text that holds terms of the Fashion chain, and the
\* first listed subsegment returned.
C26_Witness ==
    /\ SubsegmentReturned
    /\ category_arg \in DOMAIN PRODUCT_CATEGORIES \ BespokeCategories
    /\ Len(PRODUCT_CATEGORIES[category_arg].subsegments) > 1
    /\ GroupsPresent(SubsegmentText(company_data)) # {}
    /\ result = PRODUCT_CATEGORIES[category_arg].subsegments[1]

\* C28: every non-empty subsegment the function returns for a category is
\* one of the subsegments the taxonomy lists for that category.
C28_SubsegmentIsListed ==
    (SubsegmentReturned /\ result # "") =>
        /\ category_arg \in DOMAIN PRODUCT_CATEGORIES
        /\ \E i \in DOMAIN PRODUCT_CATEGORIES[category_arg].subsegments :
               PRODUCT_CATEGORIES[category_arg].subsegments[i] = result

---------------------------------------------------------------------------
(* The order of the rows process_companies_concurrent returns *)

\* the concurrent path was taken and has returned
ConcurrentReturned == pc = "batch_returned" /\ futures # <<>>

\* C27: process_companies_concurrent returns one row per input company in
\* the order of the input, the i-th row being that of the i-th company
\* (its name and its revenue), for every order in which the tasks
\* complete, also when a company name occurs more than once in the input.
C27_RowsInInputOrder ==
    ConcurrentReturned =>
        /\ Len(results) = Len(batch.companies)
        /\ \A i \in 1..Len(results) :
               /\ results[i].company_name = batch.companies[i].company_name
               /\ results[i].revenue = batch.companies[i].revenue

---------------------------------------------------------------------------
(* The two tests for 'has industry codes' *)

\* C29: for every record, has_naringskoder(record) is true if and only if
\* extract_naringskoder(record) is non-empty: the selector and the
\* orchestrator agree on whether a record has industry codes.
C29_SelectorAndOrchestratorAgree ==
    pc = "extract_return" =>
        (has_naringskoder(company_data) <=> naringskoder # <<>>)

---------------------------------------------------------------------------
(* How far the selected record can be from the top score *)

\* the relevance score of the selected record
SelectedScore == get_company_relevance_score(SelectedCompany, company_name)

\* C30: when the candidates are scored, the selected record is one of the
\* scored group and its score is within 0.10 of the highest score; a
\* top-scored candidate that is active is the one selected; and a record
\* of lower score than the top is selected only if the top-scored
\* candidate is not active, at least two candidates have codes, and an
\* active candidate scores within 0.10 of the top.
C30_SelectedNearTopScore ==
    WasScored =>
        LET top == FirstOf(ScoredPositions)
        IN  /\ \E i \in ScoredPositions :
                   /\ companies[i] = SelectedCompany
                   /\ FracClose(ScoreAt(i), ScoreAt(top))
            /\ is_company_active(companies[top]) => SelectedCompany = companies[top]
            /\ FracGT(ScoreAt(top), SelectedScore) =>
                   /\ ~is_company_active(companies[top])
                   /\ Cardinality(CodedPositions) >= 2
                   /\ is_company_active(SelectedCompany)
                   /\ \E i \in ScoredPositions :
                          /\ is_company_active(companies[i])
                          /\ FracClose(ScoreAt(i), ScoreAt(top))

\* C30 witness: a record of strictly lower score than the top-scored
\* candidate was selected, while another scored candidate lies more than
\* 0.10 below the top.
C30_Witness ==
    /\ WasScored
    /\ FracGT(ScoreAt(FirstOf(ScoredPositions)), SelectedScore)
    /\ \E i \in ScoredPositions :
           ~FracClose(ScoreAt(i), ScoreAt(FirstOf(ScoredPositions)))

====
